---------------------------- MODULE Spec2Model ----------------------------
(***************************************************************************)
(* A model of the metrics instrumentation core of client_golang            *)
(* (package prometheus, directory prometheus/new): label sets and their    *)
(* fingerprints, counter partials, counter families with their sorted      *)
(* children and fingerprint index, and the family registry.                *)
(*                                                                         *)
(* Go strings are sequences of bytes, Go slices are sequences indexed from *)
(* 0 through At and Slice, and a uint64 is a sequence of 8 bytes, least    *)
(* significant first, so that the FNV-1a arithmetic keeps its width.       *)
(***************************************************************************)
EXTENDS Integers, Sequences, FiniteSets, TLC

\* ------------------------------------------------------------------ bounds
\* The number of counter instances that Apply may construct in one run.
MaxInstances == 3

\* --------------------------------------------------------------- Go values
\* Go's built-in order of strings: bytewise, a proper prefix first.
RECURSIVE StrLess(_, _)
StrLess(s, t) ==
    IF t = <<>> THEN FALSE
    ELSE IF s = <<>> THEN TRUE
    ELSE IF s[1] # t[1] THEN s[1] < t[1]
    ELSE StrLess(Tail(s), Tail(t))

\* s[i] of a Go slice (indexed from 0).
At(s, i) == s[i + 1]

\* s[lo:hi] of a Go slice.
Slice(s, lo, hi) == SubSeq(s, lo + 1, hi)

\* The zero value of a uint64.
ZeroU64 == <<0, 0, 0, 0, 0, 0, 0, 0>>

\* ------------------------------------------------------- hash/fnv, New64a
\* The FNV-1a 64-bit offset basis 0xcbf29ce484222325, least significant
\* byte first.
FnvOffset64 == <<37, 35, 34, 132, 228, 156, 242, 203>>

\* The FNV 64-bit prime is 2^40 + FnvPrimeLow (0x100000001b3).
FnvPrimeLow == 435

\* x XOR y on n bits.
RECURSIVE XorBits(_, _, _)
XorBits(x, y, n) ==
    IF n = 0 THEN 0
    ELSE (((x % 2) + (y % 2)) % 2) + (2 * XorBits(x \div 2, y \div 2, n - 1))

\* Bytes k..8 of h * prime mod 2^64, given the carry into byte k.
RECURSIVE FnvMul(_, _, _)
FnvMul(h, k, carry) ==
    IF k > 8 THEN <<>>
    ELSE LET v == (FnvPrimeLow * h[k]) + (IF k > 5 THEN h[k - 5] ELSE 0) + carry
         IN  <<v % 256>> \o FnvMul(h, k + 1, v \div 256)

\* One Write of a byte into the digest: hash ^= b; hash *= prime.
FnvStep(h, b) == FnvMul([h EXCEPT ![1] = XorBits(h[1], b, 8)], 1, 0)

\* The digest after writing the bytes of s, starting from h.
RECURSIVE FnvWrite(_, _)
FnvWrite(h, s) == IF s = <<>> THEN h ELSE FnvWrite(FnvStep(h, s[1]), Tail(s))


\* ------------------------------------------------------- labelPair (dump.go)
\* The strings the callers use: label names, label values.
StrA == <<97>>
StrB == <<98>>
StrC == <<99>>
Str1 == <<49>>
Str2 == <<50>>

labelPair(name, value) == [Name |-> name, Value |-> value]

\* func (l *labelPair) Before(o *labelPair) bool
labelPair_Before(l, o) ==
    IF StrLess(l.Name, o.Name) THEN TRUE
    ELSE IF StrLess(o.Name, l.Name) THEN FALSE
    ELSE IF StrLess(l.Value, o.Value) THEN TRUE
    ELSE FALSE

\* ------------------------------------------------------ labelPairs (dump.go)
\* func (l labelPairs) Less(i, j int) bool
labelPairs_Less(l, i, j) == labelPair_Before(At(l, i), At(l, j))

\* func (l labelPairs) Swap(i, j int)
labelPairs_Swap(l, i, j) ==
    [l EXCEPT ![i + 1] = At(l, j), ![j + 1] = At(l, i)]

\* sort.IsSorted: for i := n - 1; i > 0; i-- { if data.Less(i, i-1) { return false } }
labelPairs_IsSorted(l) ==
    \A i \in 1..(Len(l) - 1) : ~labelPairs_Less(l, i, i - 1)

\* sort.Sort on a short slice is insertionSort(data, 0, n); its inner loop
\* for j := i; j > 0 && data.Less(j, j-1); j-- { data.Swap(j, j-1) }
RECURSIVE labelPairs_insert(_, _)
labelPairs_insert(l, j) ==
    IF j > 0 /\ labelPairs_Less(l, j, j - 1)
    THEN labelPairs_insert(labelPairs_Swap(l, j, j - 1), j - 1)
    ELSE l

\* ... and its outer loop, for i := 1; i < n; i++.
RECURSIVE labelPairs_insertionSort(_, _)
labelPairs_insertionSort(l, i) ==
    IF i < Len(l)
    THEN labelPairs_insertionSort(labelPairs_insert(l, i), i + 1)
    ELSE l

labelPairs_Sort(l) == labelPairs_insertionSort(l, 1)

\* The digest after fmt.Fprint(digest, pair.Name, pair.Value) for each pair:
\* both operands are strings, so Fprint writes them with nothing in between.
RECURSIVE labelPairs_digest(_, _)
labelPairs_digest(h, l) ==
    IF l = <<>> THEN h
    ELSE labelPairs_digest(FnvWrite(FnvWrite(h, l[1].Name), l[1].Value), Tail(l))

\* func (l labelPairs) fingerprint() uint64
labelPairs_fingerprint(l) == labelPairs_digest(FnvOffset64, l)

\* func (l labelPairs) Before(o labelPairs) bool
\* (o[i] exists for every i the loop reaches: the children of one family
\* all passed validate, so they have one pair per dimension.)
labelPairs_Before(l, o) ==
    \E i \in 1..Len(l) : labelPair_Before(l[i], o[i])

\* The pairs that NewChild and With build from their strings, two by two.
RECURSIVE pairsOf(_)
pairsOf(strs) ==
    IF Len(strs) < 2 THEN <<>>
    ELSE <<labelPair(strs[1], strs[2])>> \o pairsOf(Tail(Tail(strs)))

\* -------------------------------------------------- counterFamily (counter.go)
\* The options of the counter family under study.
options ==
    [Name |-> StrA, Subsystem |-> <<>>, Namespace |-> <<>>, Help |-> <<104>>,
     Dimensions |-> <<StrA, StrB>>, DefaultValue |-> 0]

\* map[uint64]int{}
EmptyMap == [fp \in {} |-> 0]

\* No counter: the nil *counter.
Nil == 0

\* The outcomes of a call: a normal return, or the panic it ends with.
Ok == "ok"
PanicIllegalLabels == "illegal labels"
PanicWrongDimensions == "illegal labels: wrong dimensions"
PanicNoMatch == "illegal labels: does not match defined dimensions"
PanicMissingFingerprint == "illegal invariant: missing fingerprint"
PanicIndex == "runtime error: index out of range"
PanicSlice == "runtime error: slice bounds out of range"
PanicRegistered == "illegal metric: already registered"
PanicName == "illegal Name; one must be provided"
PanicHelp == "illegal Help; documentation must be provided"
PanicQuantiles == "illegal summarization: must request at least one quantile"

\* The loop of validate over p.labels, from pair i on.
RECURSIVE validateFrom(_, _, _)
validateFrom(labels, unaccountedForDimensions, i) ==
    IF i > Len(labels) THEN Ok
    ELSE IF labels[i].Name \notin unaccountedForDimensions THEN PanicNoMatch
    ELSE validateFrom(labels, unaccountedForDimensions \ {labels[i].Name}, i + 1)

\* validate as it would be with the count of the pairs as its only check.
counterPartial_validate_countOnly(labels, dimensions) ==
    IF Len(labels) # Len(dimensions) THEN PanicWrongDimensions ELSE Ok

\* func (p *counterPartial) validate()
counterPartial_validate(labels, dimensions) ==
    IF Len(labels) # Len(dimensions) THEN PanicWrongDimensions
    ELSE validateFrom(labels, {dimensions[i] : i \in 1..Len(dimensions)}, 1)

\* func (c *counter) Before(o *counter) bool, on the counters of heap
counter_Before(heap, c, o) == labelPairs_Before(heap[c].Labels, heap[o].Labels)

\* func (c counterChildren) Less(i, j int) bool
counterChildren_Less(heap, c, i, j) == counter_Before(heap, At(c, i), At(c, j))

\* func (c counterChildren) Swap(i, j int)
counterChildren_Swap(c, i, j) ==
    [c EXCEPT ![i + 1] = At(c, j), ![j + 1] = At(c, i)]

\* sort.Sort(f.children): the inner loop of insertionSort ...
RECURSIVE counterChildren_insert(_, _, _)
counterChildren_insert(heap, c, j) ==
    IF j > 0 /\ counterChildren_Less(heap, c, j, j - 1)
    THEN counterChildren_insert(heap, counterChildren_Swap(c, j, j - 1), j - 1)
    ELSE c

\* ... and its outer loop.
RECURSIVE counterChildren_insertionSort(_, _, _)
counterChildren_insertionSort(heap, c, i) ==
    IF i < Len(c)
    THEN counterChildren_insertionSort(heap, counterChildren_insert(heap, c, i), i + 1)
    ELSE c

counterChildren_Sort(heap, c) == counterChildren_insertionSort(heap, c, 1)

\* for i, c := range f.children { f.childrenSet[c.fingerprint] = i }:
\* the last child with a fingerprint sets its entry, other entries stay.
rebuildSet(heap, kids, set) ==
    LET fps == {heap[kids[k]].fingerprint : k \in 1..Len(kids)}
        lastAt(fp) ==
            CHOOSE k \in 1..Len(kids) :
                /\ heap[kids[k]].fingerprint = fp
                /\ \A m \in (k + 1)..Len(kids) : heap[kids[m]].fingerprint # fp
    IN  [fp \in (DOMAIN set) \cup fps |->
            IF fp \in fps THEN lastAt(fp) - 1 ELSE set[fp]]

\* func (f *counterFamily) find(fingerprint uint64) (*counter, bool)
counterFamily_find(kids, set, fingerprint) ==
    IF fingerprint \notin DOMAIN set
    THEN [status |-> Ok, counter |-> Nil, has |-> FALSE]
    ELSE IF set[fingerprint] >= Len(kids)
    THEN [status |-> PanicIndex, counter |-> Nil, has |-> FALSE]
    ELSE [status |-> Ok, counter |-> At(kids, set[fingerprint]), has |-> TRUE]

\* func (f *counterFamily) register(c *counter)
counterFamily_register(heap, kids, set, c) ==
    LET sorted == counterChildren_Sort(heap, Append(kids, c))
    IN  [children |-> sorted, childrenSet |-> rebuildSet(heap, sorted, set)]

\* forget after its lookup, lines 296-307: delete the entry, then cut the
\* child at index out of f.children. A slice expression out of bounds panics
\* after the delete and before the assignment to f.children.
forgetAt(kids, set, fingerprint, index) ==
    LET n == Len(kids)
        deleted == [fp \in (DOMAIN set) \ {fingerprint} |-> set[fp]]
        panics == [status |-> PanicSlice, children |-> kids, childrenSet |-> deleted]
    IN  IF index = 0
        THEN IF n < 1 THEN panics
             ELSE [status |-> Ok, children |-> Slice(kids, 1, n),
                   childrenSet |-> deleted]
        ELSE IF index = n - 1
        THEN [status |-> Ok, children |-> Slice(kids, 0, index - 1),
              childrenSet |-> deleted]
        ELSE IF index + 1 > n
        THEN panics
        ELSE [status |-> Ok,
              children |-> Slice(kids, 0, index - 1) \o Slice(kids, index + 1, n),
              childrenSet |-> deleted]

\* forget as it would be without the check of ok: a missing key reads as
\* index 0.
counterFamily_forget_unchecked(kids, set, fingerprint) ==
    forgetAt(kids, set, fingerprint,
             IF fingerprint \in DOMAIN set THEN set[fingerprint] ELSE 0)

\* func (f *counterFamily) forget(fingerprint uint64)
counterFamily_forget(kids, set, fingerprint) ==
    IF fingerprint \notin DOMAIN set
    THEN [status |-> PanicMissingFingerprint, children |-> kids, childrenSet |-> set]
    ELSE forgetAt(kids, set, fingerprint, set[fingerprint])

\* ForgetAll as it would be with only the children cleared.
counterFamily_ForgetAll_keepsIndex(kids, set) ==
    [children |-> <<>>, childrenSet |-> set]

\* func (f *counterFamily) ForgetAll()
counterFamily_ForgetAll(kids, set) ==
    [children |-> <<>>, childrenSet |-> EmptyMap]

\* shouldDump as it would be for a family that always asks to be dumped.
counterFamily_shouldDump_always(kids) == TRUE

\* func (f *counterFamily) shouldDump(*dumpOptions) bool
counterFamily_shouldDump(kids) == Len(kids) > 0


\* ------------------------------------------------ MetricOptions (summary.go)
StrH == <<104>>
Underscore == <<95>>

\* func (o *MetricOptions) deriveName() familyName
deriveName(o) ==
    IF o.Namespace # <<>> /\ o.Subsystem # <<>>
    THEN o.Namespace \o Underscore \o o.Subsystem \o Underscore \o o.Name
    ELSE IF o.Namespace # <<>> THEN o.Namespace \o Underscore \o o.Name
    ELSE IF o.Subsystem # <<>> THEN o.Subsystem \o Underscore \o o.Name
    ELSE o.Name

\* func (o *MetricOptions) validate()
MetricOptions_validate(o) ==
    IF o.Name = <<>> THEN PanicName
    ELSE IF o.Help = <<>> THEN PanicHelp
    ELSE Ok

\* func (s *SummaryOptions) validate()
SummaryOptions_validate(o) ==
    IF MetricOptions_validate(o) # Ok THEN MetricOptions_validate(o)
    ELSE IF o.RequestedQuantiles = 0 THEN PanicQuantiles
    ELSE Ok

\* ------------------------------------------------------- families, registry
\* func (n familyName) fingerprint() uint64
familyName_fingerprint(n) == FnvWrite(FnvOffset64, n)

\* The family that a constructor builds before it registers it: the
\* composite literal sets name, options and childrenSet, and leaves fp at
\* the zero value.
newFamily(kind, o) == [name |-> deriveName(o), fp |-> ZeroU64, kind |-> kind]

\* func (f *counterFamily) fingerprint() uint64, and the gauge's, the summary's
family_fingerprint(f) == f.fp

\* func (f families) Less(i, j int) bool
families_Less(f, i, j) == StrLess(At(f, i).name, At(f, j).name)

\* func (f families) Swap(i, j int)
families_Swap(f, i, j) == [f EXCEPT ![i + 1] = At(f, j), ![j + 1] = At(f, i)]

\* sort.Sort(r.families): the inner loop of insertionSort ...
RECURSIVE families_insert(_, _)
families_insert(f, j) ==
    IF j > 0 /\ families_Less(f, j, j - 1)
    THEN families_insert(families_Swap(f, j, j - 1), j - 1)
    ELSE f

\* ... and its outer loop.
RECURSIVE families_insertionSort(_, _)
families_insertionSort(f, i) ==
    IF i < Len(f) THEN families_insertionSort(families_insert(f, i), i + 1) ELSE f

families_Sort(f) == families_insertionSort(f, 1)

\* for i, f := range r.families { r.familiesSet[f.fingerprint()] = i }
rebuildFamiliesSet(fams, set) ==
    LET fps == {family_fingerprint(fams[k]) : k \in 1..Len(fams)}
        lastAt(fp) ==
            CHOOSE k \in 1..Len(fams) :
                /\ family_fingerprint(fams[k]) = fp
                /\ \A m \in (k + 1)..Len(fams) : family_fingerprint(fams[m]) # fp
    IN  [fp \in (DOMAIN set) \cup fps |->
            IF fp \in fps THEN lastAt(fp) - 1 ELSE set[fp]]

\* register as it would be without the check for a registered fingerprint.
registry_register_unchecked(fams, set, f) ==
    LET sorted == families_Sort(Append(fams, f))
    IN  [status |-> Ok, families |-> sorted,
         familiesSet |-> rebuildFamiliesSet(sorted, set)]

\* func (r *registry) register(f Family)
registry_register(fams, set, f) ==
    IF family_fingerprint(f) \in DOMAIN set
    THEN [status |-> PanicRegistered, families |-> fams, familiesSet |-> set]
    ELSE LET sorted == families_Sort(Append(fams, f))
         IN  [status |-> Ok, families |-> sorted,
              familiesSet |-> rebuildFamiliesSet(sorted, set)]

\* ------------------------------------------------------------------- state
VARIABLES
    counters,     \* the counters constructed so far, by identity 1..Len(counters)
    children,     \* f.children: the identities of the family's children
    childrenSet,  \* f.childrenSet: fingerprint -> index into f.children
    partial,      \* per thread, the counterPartial it holds
    pc,           \* per thread, where it stands in its call
    fingerprint,  \* per thread, the local variable fingerprint of Apply
    last,         \* the step taken last: the call, its outcome, what it returned
    families,     \* r.families of the registry
    familiesSet,  \* r.familiesSet: family fingerprint -> index into r.families
    lastReg       \* the registration attempted last and its outcome

\* The partials and counters whose label slices share backing arrays.
VARIABLES
    arrays,       \* the backing arrays of label pairs allocated so far, by identity
    partials,     \* the counterPartials constructed so far: their labels slice
    instances,    \* the counters whose Labels are slices into arrays
    lastCall      \* the call on a partial made last: receiver, arguments, outcome

\* One run of the canonicalization and the fingerprint of Apply.
VARIABLES
    accumulated,  \* the pairs in the order in which they were accumulated
    sortedLabels, \* p.labels as the steps of Apply leave it
    stage,        \* where the run stands
    sum           \* the local variable fingerprint of Apply

\* The kind of the family under study.
VARIABLES
    familyKind    \* "counter" for a counterFamily, "gauge" for a gaugeFamily

\* The registered families, the locks and one dump of the registry.
VARIABLES
    familyChildren, \* per family, f.children: its children, numbered as they came
    familyLock,     \* per family, the read locks held on its RWMutex
    registryLock,   \* the read locks held on the registry's RWMutex
    dump            \* the dump under way or made last: where it stands, its result

\* Threads that call the methods of one counter.
VARIABLES
    mutex,        \* the thread that holds the counter's lock, if any
    call,         \* per thread, the method it is in and where it stands
    net           \* the calls that have returned: their number, sum and callers

\* One comparison of label sets.
VARIABLES
    operands,     \* the label sets compared: the receiver l, the argument o, a third m
    verdict       \* what Before returned for each ordered pair of them

\* Threads that call into the package, and the locks they take.
VARIABLES
    locks,        \* per RWMutex, the thread that holds it for writing and the readers
    running       \* per thread, the call it is in and the lock steps it has left

vars == <<counters, children, childrenSet, partial, pc, fingerprint, last,
          families, familiesSet, lastReg,
          arrays, partials, instances, lastCall,
          accumulated, sortedLabels, stage, sum,
          familyKind,
          familyChildren, familyLock, registryLock, dump,
          mutex, call, net,
          operands, verdict,
          locks, running>>

dumpVars == <<familyChildren, familyLock, registryLock, dump>>
mutateVars == <<mutex, call, net>>

Threads == {"t1", "t2"}

sliceVars == <<arrays, partials, instances, lastCall>>
hashVars == <<accumulated, sortedLabels, stage, sum>>
orderVars == <<operands, verdict>>
lockVars == <<locks, running>>

\* What the calls on the family of Init and on the registry leave alone.
restVars == <<sliceVars, hashVars, familyKind, orderVars, lockVars, dumpVars, mutateVars>>

NoCall == [op |-> "none", p |-> Nil, labels |-> <<>>, status |-> Ok, ret |-> Nil]

\* No run of the fingerprint under way.
InitNoHash ==
    /\ accumulated = <<>>
    /\ sortedLabels = <<>>
    /\ stage = "none"
    /\ sum = ZeroU64

\* The Family values passed to register: their names and fingerprints.
FamilyInputs ==
    { [name |-> StrB, fp |-> ZeroU64, kind |-> "counter"],
      [name |-> StrA, fp |-> <<1, 0, 0, 0, 0, 0, 0, 0>>, kind |-> "counter"],
      [name |-> StrA, fp |-> ZeroU64, kind |-> "counter"] }

\* The nil error.
NoError == "nil"

NoDump ==
    [pc |-> "idle", format |-> 0, failAt |-> 0, i |-> 0, k |-> 0,
     collected |-> <<>>, writes |-> 0, status |-> Ok, err |-> NoError]

\* The holder of a lock that no thread holds.
NoThread == "none"

NoMethod == [pc |-> "idle", op |-> "none", v |-> 0, loaded |-> 0]

\* No partial with a slice constructed yet; no family with children, no
\* lock held and no dump made; no thread in a method of a counter.
InitIdle ==
    /\ arrays = <<>>
    /\ partials = <<>>
    /\ instances = <<>>
    /\ lastCall = NoCall
    /\ familyChildren = [f \in FamilyInputs |-> <<>>]
    /\ familyLock = [f \in FamilyInputs |-> 0]
    /\ registryLock = 0
    /\ dump = NoDump
    /\ mutex = NoThread
    /\ call = [t \in Threads |-> NoMethod]
    /\ net = [calls |-> 0, sum |-> 0, by |-> {}]

\* No label sets compared.
NoVerdict == [done |-> FALSE, lo |-> FALSE, ol |-> FALSE, om |-> FALSE, lm |-> FALSE]

InitNoOrder ==
    /\ operands = <<>>
    /\ verdict = NoVerdict

\* The RWMutex of the registry, of the family, of the partial a thread made
\* and of a counter: their names.
partialLock(t) == IF t = "t1" THEN "p1" ELSE "p2"

counterLock(c) == <<"c1", "c2", "c3", "c4", "c5">>[c]

\* The most counters constructed in one run of the threads that take locks.
MaxCounters == 2

LockNames ==
    {"r", "f"} \cup {partialLock(t) : t \in Threads}
    \cup {counterLock(c) : c \in 1..MaxCounters}

\* An RWMutex that no thread holds, and a thread that is in no call.
Unlocked == [writer |-> NoThread, readers |-> {}]

NotRunning ==
    [op |-> "none", todo |-> <<>>, pending |-> FALSE, fp |-> ZeroU64,
     labels |-> <<>>, v |-> 0]

InitNoLocks ==
    /\ locks = [x \in LockNames |-> Unlocked]
    /\ running = [t \in Threads |-> NotRunning]

InitRest ==
    InitIdle /\ InitNoHash /\ InitNoOrder /\ InitNoLocks /\ familyKind = "counter"

familyVars == <<counters, children, childrenSet, partial, pc, fingerprint, last>>
registryVars == <<families, familiesSet, lastReg>>

\* The strings the threads pass to NewChild: label sets over the declared
\* dimensions, each in both orders, and label sets that do not match them.
ValidLabels == {<<Str1, Str1>>, <<Str1, Str2>>, <<Str2, Str1>>}

ValidInputs ==
    {<<StrA, v[1], StrB, v[2]>> : v \in ValidLabels}
    \cup {<<StrB, v[2], StrA, v[1]>> : v \in ValidLabels}

InvalidInputs ==
    { <<StrA, Str1>>,
      <<StrA, Str1, StrA, Str2>>,
      <<StrA, Str1, StrC, Str1>>,
      <<StrA, Str1, StrB, Str1, StrC, Str1>>,
      <<StrA>> }

StringInputs == ValidInputs \cup InvalidInputs

NoPartial == [live |-> FALSE, labels |-> <<>>]

Step(t, op, done, status, val, labels, arg, n) ==
    [t |-> t, op |-> op, done |-> done, status |-> status, val |-> val,
     labels |-> labels, arg |-> arg, n |-> n]

\* The family under study, as NewCounterFamily leaves it: no children, and
\* registered in the default registry under the fingerprint of its fp field.
InitFamilyOf(k) ==
    /\ counters = <<>>
    /\ children = <<>>
    /\ childrenSet = EmptyMap
    /\ partial = [t \in Threads |-> NoPartial]
    /\ pc = [t \in Threads |-> "idle"]
    /\ fingerprint = [t \in Threads |-> ZeroU64]
    /\ last = Step("t1", IF k = "gauge" THEN "NewGaugeFamily" ELSE "NewCounterFamily",
                   TRUE, Ok, Nil, <<>>, Nil, 0)
    /\ LET registered == registry_register(<<>>, EmptyMap, newFamily(k, options))
       IN  /\ families = registered.families
           /\ familiesSet = registered.familiesSet
           /\ lastReg = [kind |-> k, name |-> deriveName(options),
                         status |-> registered.status]

Init == InitFamilyOf("counter") /\ InitRest

\* func (f *counterFamily) NewChild(labels ...string) CounterPartial
NewChild(t, labels) ==
    /\ pc[t] = "idle"
    /\ IF Len(labels) % 2 # 0
       THEN /\ last' = Step(t, "NewChild", TRUE, PanicIllegalLabels, Nil, <<>>, Nil,
                            Len(children))
            /\ UNCHANGED partial
       ELSE /\ partial' = [partial EXCEPT ![t] =
                              [live |-> TRUE, labels |-> pairsOf(labels)]]
            /\ last' = Step(t, "NewChild", TRUE, Ok, Nil, pairsOf(labels), Nil,
                            Len(children))
    /\ UNCHANGED <<counters, children, childrenSet, pc, fingerprint>>
    /\ UNCHANGED registryVars
    /\ UNCHANGED restVars

\* p.labels as it would be with the sort left out.
canonical_asGiven(labels) == labels

\* p.labels after lines 63-65 of Apply.
canonical(labels) ==
    IF ~labelPairs_IsSorted(labels) THEN labelPairs_Sort(labels) ELSE labels

\* func (p *counterPartial) Apply() Counter, lines 60-70: under p's lock,
\* sort p.labels, compute the fingerprint and look it up in the parent
\* (find holds the family's read lock); return the counter found.
Apply(t) ==
    /\ pc[t] = "idle"
    /\ partial[t].live
    /\ LET labels == canonical(partial[t].labels)
           fp == labelPairs_fingerprint(labels)
           found == counterFamily_find(children, childrenSet, fp)
       IN  /\ partial' = [partial EXCEPT ![t].labels = labels]
           /\ IF found.status # Ok
              THEN /\ last' = Step(t, "Apply", TRUE, found.status, Nil, labels, Nil,
                                   Len(children))
                   /\ UNCHANGED <<pc, fingerprint>>
              ELSE IF found.has
              THEN /\ last' = Step(t, "Apply", TRUE, Ok, found.counter, labels, Nil,
                                   Len(children))
                   /\ UNCHANGED <<pc, fingerprint>>
              ELSE /\ Len(counters) + Cardinality({u \in Threads : pc[u] = "Apply_miss"})
                        < MaxInstances
                   /\ pc' = [pc EXCEPT ![t] = "Apply_miss"]
                   /\ fingerprint' = [fingerprint EXCEPT ![t] = fp]
                   /\ last' = Step(t, "Apply", FALSE, Ok, Nil, labels, Nil,
                                   Len(children))
    /\ UNCHANGED <<counters, children, childrenSet>>
    /\ UNCHANGED registryVars
    /\ UNCHANGED restVars

\* Apply, lines 72-83, after find reported no counter: validate, construct
\* the counter, register it in the parent (under the family's lock).
ApplyCreate(t) ==
    /\ pc[t] = "Apply_miss"
    /\ pc' = [pc EXCEPT ![t] = "idle"]
    /\ fingerprint' = [fingerprint EXCEPT ![t] = ZeroU64]
    /\ LET labels == partial[t].labels
           valid == counterPartial_validate(labels, options.Dimensions)
           counter == [fingerprint |-> fingerprint[t], Labels |-> labels,
                       Value |-> options.DefaultValue]
           heap == Append(counters, counter)
           c == Len(heap)
           registered == counterFamily_register(heap, children, childrenSet, c)
       IN  IF valid # Ok
           THEN /\ last' = Step(t, "Apply", TRUE, valid, Nil, labels, Nil,
                                Len(children))
                /\ UNCHANGED <<counters, children, childrenSet>>
           ELSE /\ counters' = heap
                /\ children' = registered.children
                /\ childrenSet' = registered.childrenSet
                /\ last' = Step(t, "Apply", TRUE, Ok, c, labels, Nil, Len(children))
    /\ UNCHANGED partial
    /\ UNCHANGED registryVars
    /\ UNCHANGED restVars

\* func (c *counter) Forget(), through a handle on counter c
Forget(t, c) ==
    /\ pc[t] = "idle"
    /\ c \in 1..Len(counters)
    /\ LET forgotten == counterFamily_forget(children, childrenSet,
                                             counters[c].fingerprint)
       IN  /\ children' = forgotten.children
           /\ childrenSet' = forgotten.childrenSet
           /\ last' = Step(t, "Forget", TRUE, forgotten.status, Nil, <<>>, c,
                           Len(children))
    /\ UNCHANGED <<counters, partial, pc, fingerprint>>
    /\ UNCHANGED registryVars
    /\ UNCHANGED restVars

\* func (f *counterFamily) ForgetAll()
ForgetAll(t) ==
    /\ pc[t] = "idle"
    /\ LET cleared == counterFamily_ForgetAll(children, childrenSet)
       IN  /\ children' = cleared.children
           /\ childrenSet' = cleared.childrenSet
    /\ last' = Step(t, "ForgetAll", TRUE, Ok, Nil, <<>>, Nil, Len(children))
    /\ UNCHANGED <<counters, partial, pc, fingerprint>>
    /\ UNCHANGED registryVars
    /\ UNCHANGED restVars

\* One caller: any sequence of calls, each run to its end before the next.
Caller == "t1"

Next ==
    \/ \E labels \in StringInputs : NewChild(Caller, labels)
    \/ Apply(Caller)
    \/ ApplyCreate(Caller)
    \/ \E c \in 1..MaxInstances : Forget(Caller, c)
    \/ ForgetAll(Caller)

Spec == Init /\ [][Next]_vars

\* ------------------------------------------------------------ two callers
\* The strings the two racing threads pass to NewChild.
RaceInputs ==
    { <<StrA, Str1, StrB, Str1>>, <<StrB, Str1, StrA, Str1>>,
      <<StrA, Str2, StrB, Str1>>, <<StrB, Str1, StrA, Str2>>,
      <<StrA, Str1>> }

NextRace ==
    \/ \E t \in Threads, labels \in RaceInputs : NewChild(t, labels)
    \/ \E t \in Threads : Apply(t)
    \/ \E t \in Threads : ApplyCreate(t)
    \/ \E t \in Threads, c \in 1..MaxInstances : Forget(t, c)
    \/ \E t \in Threads : ForgetAll(t)

SpecRace == Init /\ [][NextRace]_vars

\* --------------------------------------- label sets with one fingerprint
\* Strings that read the same when written one after the other.
Str1B == <<49, 98>>
Str1B1 == <<49, 98, 49>>
StrA1 == <<97, 49>>

\* The strings the caller passes to NewChild: two label sets over the
\* declared dimensions a, b, a third whose fingerprint no other has, and
\* one with a pair for the undeclared dimension a1.
CollisionInputs ==
    { <<StrA, Str1, StrB, Str1B>>,
      <<StrA, Str1B1, StrB, <<>>>>,
      <<StrA, Str1, StrB, Str1>>,
      <<StrB, Str1, StrA1, <<>>>>,
      <<StrA, Str2, StrB, Str1>> }

NextCollision ==
    \/ \E labels \in CollisionInputs : NewChild(Caller, labels)
    \/ Apply(Caller)
    \/ ApplyCreate(Caller)

SpecCollision == Init /\ [][NextCollision]_vars

\* ------------------------------------------------------------ the registry
\* The options the callers declare families with.
MetricOptionsInputs ==
    [Name : {<<>>, StrA, StrB}, Subsystem : {<<>>, StrB}, Namespace : {<<>>, StrA},
     Help : {<<>>, StrH}, RequestedQuantiles : {0, 1}]

\* var defaultRegistry = newRegistry(), and no family created yet.
InitRegistry ==
    /\ counters = <<>>
    /\ children = <<>>
    /\ childrenSet = EmptyMap
    /\ partial = [t \in Threads |-> NoPartial]
    /\ pc = [t \in Threads |-> "idle"]
    /\ fingerprint = [t \in Threads |-> ZeroU64]
    /\ last = Step("t1", "newRegistry", TRUE, Ok, Nil, <<>>, Nil, 0)
    /\ families = <<>>
    /\ familiesSet = EmptyMap
    /\ lastReg = [kind |-> "none", name |-> <<>>, status |-> Ok]
    /\ InitRest

\* The body the three constructors share: validate the options, build the
\* family, register it in the default registry.
NewFamily(kind, o, valid) ==
    /\ IF valid # Ok
       THEN /\ lastReg' = [kind |-> kind, name |-> deriveName(o), status |-> valid]
            /\ UNCHANGED <<families, familiesSet>>
       ELSE LET registered == registry_register(families, familiesSet,
                                                newFamily(kind, o))
            IN  /\ families' = registered.families
                /\ familiesSet' = registered.familiesSet
                /\ lastReg' = [kind |-> kind, name |-> deriveName(o),
                               status |-> registered.status]
    /\ UNCHANGED familyVars
    /\ UNCHANGED restVars

\* func NewCounterFamily(o CounterOptions) CounterFamily
NewCounterFamily(o) == NewFamily("counter", o, MetricOptions_validate(o))

\* func NewGaugeFamily(o GaugeOptions) GaugeFamily
NewGaugeFamily(o) == NewFamily("gauge", o, MetricOptions_validate(o))

\* func NewSummaryFamily(o SummaryOptions) SummaryFamily
NewSummaryFamily(o) == NewFamily("summary", o, SummaryOptions_validate(o))

NextRegistry ==
    \/ \E o \in MetricOptionsInputs : NewCounterFamily(o)
    \/ \E o \in MetricOptionsInputs : NewGaugeFamily(o)
    \/ \E o \in MetricOptionsInputs : NewSummaryFamily(o)

SpecRegistry == InitRegistry /\ [][NextRegistry]_vars

\* ------------------------------------------------- slices of label pairs
\* The most pairs one partial accumulates, and the most backing arrays and
\* partials of one run.
MaxLabels == 4
MaxArrays == 4
MaxPartials == 2

\* A labelPairs value is a slice: a backing array and a length, the capacity
\* being the length of the array. labelPairs{} has no array.
slice(array, len) == [array |-> array, len |-> len]

cap(mem, s) == IF s.array = Nil THEN 0 ELSE Len(mem[s.array])

\* The pairs s[0], ..., s[len(s)-1].
elements(mem, s) == IF s.len = 0 THEN <<>> ELSE SubSeq(mem[s.array], 1, s.len)

\* append(p.labels, labelPair{...}): in place when the capacity allows it,
\* else into a new array of twice the capacity with the elements copied
\* (and the zero value of labelPair beyond them).
append(mem, s, pair) ==
    IF s.len < cap(mem, s)
    THEN [mem |-> [mem EXCEPT ![s.array][s.len + 1] = pair],
          slice |-> slice(s.array, s.len + 1)]
    ELSE LET newcap == IF cap(mem, s) = 0 THEN 1 ELSE 2 * cap(mem, s)
             grown == [i \in 1..newcap |->
                          IF i <= s.len THEN mem[s.array][i]
                          ELSE IF i = s.len + 1 THEN pair ELSE labelPair(<<>>, <<>>)]
         IN  [mem |-> Append(mem, grown), slice |-> slice(Len(mem) + 1, s.len + 1)]

\* for i := 0; i < len(labels); i += 2 { p.labels = append(p.labels, ...) }
RECURSIVE appendPairs(_, _, _)
appendPairs(mem, s, pairs) ==
    IF pairs = <<>> THEN [mem |-> mem, slice |-> s]
    ELSE LET one == append(mem, s, Head(pairs))
         IN  appendPairs(one.mem, one.slice, Tail(pairs))

\* if !sort.IsSorted(p.labels) { sort.Sort(p.labels) }: Swap exchanges the
\* elements of the backing array.
sortInPlace(mem, s) ==
    IF s.len = 0 THEN mem
    ELSE [mem EXCEPT ![s.array] =
             canonical(SubSeq(@, 1, s.len)) \o SubSeq(@, s.len + 1, Len(@))]

\* func (f *counterFamily) NewChild(labels ...string) CounterPartial
counterFamily_NewChild(mem, labels) ==
    IF Len(labels) % 2 # 0
    THEN [status |-> PanicIllegalLabels, mem |-> mem, slice |-> slice(Nil, 0)]
    ELSE LET pairs == appendPairs(mem, slice(Nil, 0), pairsOf(labels))
         IN  [status |-> Ok, mem |-> pairs.mem, slice |-> pairs.slice]

\* With as it would be with the pairs appended before the count is checked.
counterPartial_With_appendFirst(mem, s, labels) ==
    LET appended == appendPairs(mem, s, pairsOf(labels))
    IN  [status |-> IF Len(labels) % 2 # 0 THEN PanicIllegalLabels ELSE Ok,
         mem |-> appended.mem, slice |-> appended.slice]

\* func (p *counterPartial) With(labels ...string)
counterPartial_With(mem, s, labels) ==
    IF Len(labels) % 2 # 0
    THEN [status |-> PanicIllegalLabels, mem |-> mem, slice |-> s]
    ELSE LET appended == appendPairs(mem, s, pairsOf(labels))
         IN  [status |-> Ok, mem |-> appended.mem, slice |-> appended.slice]

\* Clone as it would be with the labels slice assigned and not copied.
counterPartial_Clone_shared(mem, s) == [mem |-> mem, slice |-> s]

\* func (p *counterPartial) Clone() CounterPartial:
\* labels := make(labelPairs, len(p.labels)); copy(labels, p.labels)
counterPartial_Clone(mem, s) ==
    IF s.len = 0 THEN [mem |-> mem, slice |-> slice(Nil, 0)]
    ELSE [mem |-> Append(mem, elements(mem, s)), slice |-> slice(Len(mem) + 1, s.len)]

\* The counters with the pairs their Labels slices hold at present.
resolve(mem, heap) ==
    [c \in 1..Len(heap) |-> [heap[c] EXCEPT !.Labels = elements(mem, heap[c].Labels)]]

\* The family of the partials below declares three dimensions.
DimensionsABC == <<StrA, StrB, StrC>>

\* The strings passed to NewChild and to With.
NewChildInputs ==
    { <<>>, <<StrC, Str1, StrB, Str1, StrA, Str1>>,
      <<StrA, Str2, StrB, Str1, StrC, Str1>>, <<StrA>> }

WithInputs ==
    { <<Str1, Str1>>, <<StrC, Str1, StrB, Str1>>, <<StrA, Str1, StrB>> }

Call(op, p, labels, status, ret) ==
    [op |-> op, p |-> p, labels |-> labels, status |-> status, ret |-> ret]

\* f.NewChild(labels...), the partial kept by the caller
NewChildSlice(labels) ==
    /\ Len(partials) < MaxPartials
    /\ LET made == counterFamily_NewChild(arrays, labels)
       IN  /\ Len(made.mem) <= MaxArrays
           /\ arrays' = made.mem
           /\ IF made.status # Ok
              THEN /\ UNCHANGED partials
                   /\ lastCall' = Call("NewChild", Nil, labels, made.status, Nil)
              ELSE /\ partials' = Append(partials, made.slice)
                   /\ lastCall' = Call("NewChild", Nil, labels, Ok, Len(partials) + 1)
    /\ UNCHANGED <<instances, counters, children, childrenSet, partial, pc,
                   fingerprint, last>>
    /\ UNCHANGED <<registryVars, hashVars, familyKind, orderVars, lockVars, dumpVars, mutateVars>>

\* p.With(labels...)
With(p, labels) ==
    /\ p \in 1..Len(partials)
    /\ partials[p].len + (Len(labels) \div 2) <= MaxLabels
    /\ LET with == counterPartial_With(arrays, partials[p], labels)
       IN  /\ Len(with.mem) <= MaxArrays
           /\ arrays' = with.mem
           /\ partials' = [partials EXCEPT ![p] = with.slice]
           /\ lastCall' = Call("With", p, labels, with.status, Nil)
    /\ UNCHANGED <<instances, counters, children, childrenSet, partial, pc,
                   fingerprint, last>>
    /\ UNCHANGED <<registryVars, hashVars, familyKind, orderVars, lockVars, dumpVars, mutateVars>>

\* p.Clone(), the clone kept by the caller
Clone(p) ==
    /\ p \in 1..Len(partials)
    /\ Len(partials) < MaxPartials
    /\ LET clone == counterPartial_Clone(arrays, partials[p])
       IN  /\ Len(clone.mem) <= MaxArrays
           /\ arrays' = clone.mem
           /\ partials' = Append(partials, clone.slice)
           /\ lastCall' = Call("Clone", p, <<>>, Ok, Len(partials) + 1)
    /\ UNCHANGED <<instances, counters, children, childrenSet, partial, pc,
                   fingerprint, last>>
    /\ UNCHANGED <<registryVars, hashVars, familyKind, orderVars, lockVars, dumpVars, mutateVars>>

\* p.Apply(), run to its end: sort p.labels in place, look the fingerprint
\* up, and when there is no such child validate, construct the counter with
\* Labels: p.labels and register it.
ApplySlice(p) ==
    /\ p \in 1..Len(partials)
    /\ LET s == partials[p]
           mem == sortInPlace(arrays, s)
           labels == elements(mem, s)
           fp == labelPairs_fingerprint(labels)
           found == counterFamily_find(children, childrenSet, fp)
           valid == counterPartial_validate(labels, DimensionsABC)
           counter == [fingerprint |-> fp, Labels |-> s,
                       Value |-> options.DefaultValue]
           heap == Append(instances, counter)
           registered == counterFamily_register(resolve(mem, heap), children,
                                                childrenSet, Len(heap))
       IN  /\ arrays' = mem
           /\ IF found.status # Ok
              THEN /\ lastCall' = Call("Apply", p, <<>>, found.status, Nil)
                   /\ UNCHANGED <<instances, children, childrenSet>>
              ELSE IF found.has
              THEN /\ lastCall' = Call("Apply", p, <<>>, Ok, found.counter)
                   /\ UNCHANGED <<instances, children, childrenSet>>
              ELSE IF valid # Ok
              THEN /\ lastCall' = Call("Apply", p, <<>>, valid, Nil)
                   /\ UNCHANGED <<instances, children, childrenSet>>
              ELSE /\ Len(instances) < MaxInstances
                   /\ instances' = heap
                   /\ children' = registered.children
                   /\ childrenSet' = registered.childrenSet
                   /\ lastCall' = Call("Apply", p, <<>>, Ok, Len(heap))
    /\ UNCHANGED <<partials, counters, partial, pc, fingerprint, last>>
    /\ UNCHANGED <<registryVars, hashVars, familyKind, orderVars, lockVars, dumpVars, mutateVars>>

NextPartial ==
    \/ \E labels \in NewChildInputs : NewChildSlice(labels)
    \/ \E p \in 1..MaxPartials, labels \in WithInputs : With(p, labels)
    \/ \E p \in 1..MaxPartials : Clone(p)
    \/ \E p \in 1..MaxPartials : ApplySlice(p)

SpecPartial == Init /\ [][NextPartial]_vars

\* ------------------------------------------- the fingerprint of a label set
\* The most pairs of one label set, and the pairs it is made of.
MaxPairs == 3

PairInputs ==
    { labelPair(StrA, Str1), labelPair(StrA, Str2), labelPair(StrB, Str1),
      labelPair(Str1, StrA) }

LabelInputs ==
    UNION {[1..n -> PairInputs] : n \in 0..MaxPairs}

\* A partial that has accumulated its pairs in some order.
InitFingerprint ==
    /\ InitFamilyOf("counter")
    /\ InitIdle
    /\ InitNoOrder
    /\ InitNoLocks
    /\ familyKind = "counter"
    /\ accumulated \in LabelInputs
    /\ sortedLabels = accumulated
    /\ stage = "accumulated"
    /\ sum = ZeroU64

\* Apply, lines 63-65: if !sort.IsSorted(p.labels) { sort.Sort(p.labels) }
Canonicalize ==
    /\ stage = "accumulated"
    /\ sortedLabels' = canonical(sortedLabels)
    /\ stage' = "sorted"
    /\ UNCHANGED <<accumulated, sum>>
    /\ UNCHANGED <<familyVars, registryVars, sliceVars, familyKind, orderVars, lockVars>>
    /\ UNCHANGED <<dumpVars, mutateVars>>

\* Apply, line 67: fingerprint := p.labels.fingerprint()
Fingerprint ==
    /\ stage = "sorted"
    /\ sum' = labelPairs_fingerprint(sortedLabels)
    /\ stage' = "hashed"
    /\ UNCHANGED <<accumulated, sortedLabels>>
    /\ UNCHANGED <<familyVars, registryVars, sliceVars, familyKind, orderVars, lockVars>>
    /\ UNCHANGED <<dumpVars, mutateVars>>

NextFingerprint == Canonicalize \/ Fingerprint

SpecFingerprint == InitFingerprint /\ [][NextFingerprint]_vars

\* ------------------------------------------------ the order of label sets
\* The most dimensions of the label sets compared, the names of the
\* dimensions and the values of the labels.
MaxDimensions == 2

DimensionInputs == <<StrA, StrB, StrC, <<100>>>>

ValueInputs == {Str1, Str2}

\* The canonical label sets over the first n dimensions: one pair per
\* dimension, sorted by name.
CanonicalLabelSets(n) ==
    {[i \in 1..n |-> labelPair(DimensionInputs[i], v[i])] : v \in [1..n -> ValueInputs]}

\* Three label sets of one family, before any of them is compared.
InitBefore ==
    /\ InitFamilyOf("counter")
    /\ InitIdle
    /\ InitNoHash
    /\ InitNoLocks
    /\ familyKind = "counter"
    /\ \E n \in 1..MaxDimensions :
          operands \in [l : CanonicalLabelSets(n), o : CanonicalLabelSets(n),
                        m : CanonicalLabelSets(n)]
    /\ verdict = NoVerdict

\* l.Before(o), and Before on the other pairs of the three label sets.
Before ==
    /\ ~verdict.done
    /\ verdict' = [done |-> TRUE,
                   lo |-> labelPairs_Before(operands.l, operands.o),
                   ol |-> labelPairs_Before(operands.o, operands.l),
                   om |-> labelPairs_Before(operands.o, operands.m),
                   lm |-> labelPairs_Before(operands.l, operands.m)]
    /\ UNCHANGED operands
    /\ UNCHANGED <<familyVars, registryVars, sliceVars, hashVars, familyKind, lockVars>>
    /\ UNCHANGED <<dumpVars, mutateVars>>

NextBefore == Before

SpecBefore == InitBefore /\ [][NextBefore]_vars

\* ------------------------------------------------- the values of children
\* The largest magnitude a value takes in one run.
MaxValue == 2

\* The float64 arguments of IncrementBy, DecrementBy and Set.
FloatInputs == {-1, 2}

\* The strings passed to NewChild by the caller that goes on to set values.
ValueLabelInputs ==
    { <<StrA, Str1, StrB, Str1>>, <<StrB, Str1, StrA, Str2>> }

\* func (c *counter) Decrement(): c.Value--
counter_Decrement(heap, c) == [heap EXCEPT ![c].Value = @ - 1]

\* func (c *counter) DecrementBy(v float64): c.Value -= v
counter_DecrementBy(heap, c, v) == [heap EXCEPT ![c].Value = @ - v]

\* func (c *counter) Increment(): c.Value++
counter_Increment(heap, c) == [heap EXCEPT ![c].Value = @ + 1]

\* func (c *counter) IncrementBy(v float64): c.Value += v
counter_IncrementBy(heap, c, v) == [heap EXCEPT ![c].Value = @ + v]

\* func (c *counter) Set(v float64), func (c *gauge) Set(v float64)
counter_Set(heap, c, v) == [heap EXCEPT ![c].Value = v]

\* Reset as it would be with the value left as it is.
counter_Reset_keeps(heap, c) == heap

\* func (c *counter) Reset(): c.Value = c.parent.options.DefaultValue
counter_Reset(heap, c) == [heap EXCEPT ![c].Value = options.DefaultValue]

\* func (c *gauge) Reset()
gauge_Reset(heap, c) == [heap EXCEPT ![c].Value = options.DefaultValue]

\* func (f *counterFamily) ResetAll():
\* for _, child := range f.children { child.Reset() }
RECURSIVE counterFamily_ResetAll(_, _)
counterFamily_ResetAll(heap, kids) ==
    IF kids = <<>> THEN heap
    ELSE counterFamily_ResetAll(counter_Reset(heap, Head(kids)), Tail(kids))

\* func (f *gaugeFamily) ResetAll()
RECURSIVE gaugeFamily_ResetAll(_, _)
gaugeFamily_ResetAll(heap, kids) ==
    IF kids = <<>> THEN heap
    ELSE gaugeFamily_ResetAll(gauge_Reset(heap, Head(kids)), Tail(kids))

\* A gaugeFamily and its gauges, instead of the counterFamily of Init: the
\* types of the gauge half of counter.go repeat those of the counter half,
\* and a Gauge has no Increment or Decrement.
InitValues ==
    /\ familyKind \in {"counter", "gauge"}
    /\ InitFamilyOf(familyKind)
    /\ InitIdle
    /\ InitNoHash
    /\ InitNoOrder
    /\ InitNoLocks

\* A call that assigns to the Value of the counter c, under c's lock.
Mutate(t, c, op, arg, heap) ==
    /\ pc[t] = "idle"
    /\ c \in 1..Len(counters)
    /\ heap[c].Value \in -MaxValue..MaxValue
    /\ counters' = heap
    /\ last' = Step(t, op, TRUE, Ok, Nil, <<>>, arg, Len(children))
    /\ UNCHANGED <<children, childrenSet, partial, pc, fingerprint>>
    /\ UNCHANGED <<registryVars, restVars>>

Decrement(t, c) ==
    /\ familyKind = "counter"
    /\ Mutate(t, c, "Decrement", c, counter_Decrement(counters, c))

DecrementBy(t, c, v) ==
    /\ familyKind = "counter"
    /\ Mutate(t, c, "DecrementBy", c, counter_DecrementBy(counters, c, v))

Increment(t, c) ==
    /\ familyKind = "counter"
    /\ Mutate(t, c, "Increment", c, counter_Increment(counters, c))

IncrementBy(t, c, v) ==
    /\ familyKind = "counter"
    /\ Mutate(t, c, "IncrementBy", c, counter_IncrementBy(counters, c, v))

Set(t, c, v) == Mutate(t, c, "Set", c, counter_Set(counters, c, v))

Reset(t, c) ==
    Mutate(t, c, "Reset", c,
           IF familyKind = "gauge" THEN gauge_Reset(counters, c) ELSE counter_Reset(counters, c))

\* f.ResetAll(), under the family's read lock; the step records how many
\* children held a value other than the default.
ResetAll(t) ==
    /\ pc[t] = "idle"
    /\ counters' = IF familyKind = "gauge" THEN gaugeFamily_ResetAll(counters, children)
                   ELSE counterFamily_ResetAll(counters, children)
    /\ last' = Step(t, "ResetAll", TRUE, Ok, Nil, <<>>,
                    Cardinality({k \in 1..Len(children) :
                        counters[children[k]].Value # options.DefaultValue}),
                    Len(children))
    /\ UNCHANGED <<children, childrenSet, partial, pc, fingerprint>>
    /\ UNCHANGED <<registryVars, restVars>>

NextValues ==
    \/ \E labels \in ValueLabelInputs : NewChild(Caller, labels)
    \/ Apply(Caller)
    \/ ApplyCreate(Caller)
    \/ \E c \in 1..MaxInstances : Decrement(Caller, c)
    \/ \E c \in 1..MaxInstances, v \in FloatInputs : DecrementBy(Caller, c, v)
    \/ \E c \in 1..MaxInstances : Increment(Caller, c)
    \/ \E c \in 1..MaxInstances, v \in FloatInputs : IncrementBy(Caller, c, v)
    \/ \E c \in 1..MaxInstances, v \in FloatInputs : Set(Caller, c, v)
    \/ \E c \in 1..MaxInstances : Reset(Caller, c)
    \/ ResetAll(Caller)

SpecValues == InitValues /\ [][NextValues]_vars

\* ------------------------------------------------------ dumps of the registry
\* The most children of one family, the last write at which the writer may
\* fail, and the most read locks held on one family.
MaxChildren == 2
MaxWrites == 4
MaxReaders == 2

\* const ( dumpProto dumpFormat = iota; dumpText; dumpJSON )
dumpProto == 0
dumpText == 1
dumpJSON == 2

\* The formats a caller may ask for: the three declared and one that is not.
FormatInputs == {dumpProto, dumpText, dumpJSON, 3}

PanicFormat == "illegal format"
ErrWrite == "write failed"

\* w.Write on a writer that fails on its failAt-th write (never, when
\* failAt is 0), writes being the number of writes made before this one.
Write(writes, failAt) ==
    IF failAt # 0 /\ writes + 1 = failAt THEN ErrWrite ELSE NoError

\* The test of the error as it would be with the error ignored.
failed_never(err) == FALSE

\* if err != nil { return err }
failed(err) == err # NoError

\* The families in r.families.
Registered == {families[i] : i \in 1..Len(families)}

\* A registry with no family, no lock held and no dump made.
InitDump ==
    /\ counters = <<>>
    /\ children = <<>>
    /\ childrenSet = EmptyMap
    /\ partial = [t \in Threads |-> NoPartial]
    /\ pc = [t \in Threads |-> "idle"]
    /\ fingerprint = [t \in Threads |-> ZeroU64]
    /\ last = Step("t1", "newRegistry", TRUE, Ok, Nil, <<>>, Nil, 0)
    /\ families = <<>>
    /\ familiesSet = EmptyMap
    /\ lastReg = [kind |-> "none", name |-> <<>>, status |-> Ok]
    /\ InitRest

DumpFrame == UNCHANGED <<familyVars, sliceVars, hashVars, familyKind, orderVars, lockVars, mutateVars>>

\* r.register(f) with a Family f
Register(f) ==
    /\ dump.pc = "idle"
    /\ registryLock = 0
    /\ LET registered == registry_register(families, familiesSet, f)
       IN  /\ families' = registered.families
           /\ familiesSet' = registered.familiesSet
           /\ lastReg' = [kind |-> f.kind, name |-> f.name,
                          status |-> registered.status]
    /\ UNCHANGED dumpVars
    /\ DumpFrame

\* func (f *counterFamily) register(c *counter), at the end of an Apply
\* that found no child: under f.Lock(), f.children gains c.
RegisterChild(f) ==
    /\ dump.pc = "idle"
    /\ f \in Registered
    /\ familyLock[f] = 0
    /\ Len(familyChildren[f]) < MaxChildren
    /\ familyChildren' = [familyChildren EXCEPT ![f] = Append(@, Len(@) + 1)]
    /\ UNCHANGED <<familyLock, registryLock, dump, registryVars>>
    /\ DumpFrame

\* func (f *counterFamily) ForgetAll(): under f.Lock(), no children left.
ForgetAllOf(f) ==
    /\ dump.pc = "idle"
    /\ f \in Registered
    /\ familyLock[f] = 0
    /\ familyChildren' =
          [familyChildren EXCEPT ![f] = counterFamily_ForgetAll(@, EmptyMap).children]
    /\ UNCHANGED <<familyLock, registryLock, dump, registryVars>>
    /\ DumpFrame

\* func (r *registry) dump(w, o), up to r.RLock() in collectFamilies
registry_dump(format, failAt) ==
    /\ dump.pc = "idle"
    /\ format = dumpJSON => \A f \in Registered : familyLock[f] + 2 <= MaxReaders
    /\ registryLock' = registryLock + 1
    /\ dump' = [pc |-> "collectFamilies", format |-> format, failAt |-> failAt,
                i |-> 0, k |-> 0, collected |-> <<>>, writes |-> 0,
                status |-> Ok, err |-> NoError]
    /\ UNCHANGED <<familyChildren, familyLock, registryVars>>
    /\ DumpFrame

\* collectFamilies, the loop reaching family.shouldDump(o): f.RLock()
shouldDump_RLock ==
    /\ dump.pc = "collectFamilies"
    /\ dump.i < Len(families)
    /\ familyLock' = [familyLock EXCEPT ![At(families, dump.i)] = @ + 1]
    /\ dump' = [dump EXCEPT !.pc = "shouldDump"]
    /\ UNCHANGED <<familyChildren, registryLock, registryVars>>
    /\ DumpFrame

\* shouldDump returns len(f.children) > 0 through its deferred f.RUnlock(),
\* and collectFamilies appends the family or continues.
shouldDump_return ==
    /\ dump.pc = "shouldDump"
    /\ LET family == At(families, dump.i)
       IN  /\ familyLock' = [familyLock EXCEPT ![family] = @ - 1]
           /\ dump' = [dump EXCEPT
                          !.pc = "collectFamilies",
                          !.i = @ + 1,
                          !.collected =
                              IF counterFamily_shouldDump(familyChildren[family])
                              THEN Append(@, family) ELSE @]
    /\ UNCHANGED <<familyChildren, registryLock, registryVars>>
    /\ DumpFrame

\* collectFamilies returns through its deferred r.RUnlock(), and
\* families.dump switches on o.format.
collectFamilies_return ==
    /\ dump.pc = "collectFamilies"
    /\ dump.i = Len(families)
    /\ registryLock' = registryLock - 1
    /\ dump' = IF dump.format = dumpProto
               THEN [dump EXCEPT !.pc = "dumpProto", !.i = 0]
               ELSE IF dump.format = dumpText
               THEN [dump EXCEPT !.pc = "dumpText", !.i = 0]
               ELSE IF dump.format = dumpJSON
               THEN [dump EXCEPT !.pc = "dumpJSON", !.i = 0]
               ELSE [dump EXCEPT !.pc = "idle", !.status = PanicFormat]
    /\ UNCHANGED <<familyChildren, familyLock, registryVars>>
    /\ DumpFrame

\* families.dumpText reaching family.dumpText(w, o): f.RLock()
counterFamily_dumpText_RLock ==
    /\ dump.pc = "dumpText"
    /\ dump.i < Len(dump.collected)
    /\ familyLock' = [familyLock EXCEPT ![At(dump.collected, dump.i)] = @ + 1]
    /\ dump' = [dump EXCEPT !.pc = "dumpText_children", !.k = 0]
    /\ UNCHANGED <<familyChildren, registryLock, registryVars>>
    /\ DumpFrame

\* counterFamily.dumpText, one turn of its loop: fmt.Fprintf(w, ...) for
\* the child at k; an error returns through f.RUnlock(), families.dumpText
\* and registry.dump.
counterFamily_dumpText_Fprintf ==
    /\ dump.pc = "dumpText_children"
    /\ dump.k < Len(familyChildren[At(dump.collected, dump.i)])
    /\ LET err == Write(dump.writes, dump.failAt)
       IN  IF failed(err)
           THEN /\ familyLock' = [familyLock EXCEPT
                                     ![At(dump.collected, dump.i)] = @ - 1]
                /\ dump' = [dump EXCEPT !.pc = "idle", !.writes = @ + 1,
                                        !.err = err]
           ELSE /\ dump' = [dump EXCEPT !.k = @ + 1, !.writes = @ + 1]
                /\ UNCHANGED familyLock
    /\ UNCHANGED <<familyChildren, registryLock, registryVars>>
    /\ DumpFrame

\* counterFamily.dumpText returns nil through f.RUnlock().
counterFamily_dumpText_return ==
    /\ dump.pc = "dumpText_children"
    /\ dump.k = Len(familyChildren[At(dump.collected, dump.i)])
    /\ familyLock' = [familyLock EXCEPT ![At(dump.collected, dump.i)] = @ - 1]
    /\ dump' = [dump EXCEPT !.pc = "dumpText", !.i = @ + 1]
    /\ UNCHANGED <<familyChildren, registryLock, registryVars>>
    /\ DumpFrame

\* families.dumpProto reaching family.dumpProto(w, o): f.RLock(), and the
\* message built from the children.
counterFamily_dumpProto_RLock ==
    /\ dump.pc = "dumpProto"
    /\ dump.i < Len(dump.collected)
    /\ familyLock' = [familyLock EXCEPT ![At(dump.collected, dump.i)] = @ + 1]
    /\ dump' = [dump EXCEPT !.pc = "WriteDelimited", !.k = 0]
    /\ UNCHANGED <<familyChildren, registryLock, registryVars>>
    /\ DumpFrame

\* ext.WriteDelimited(w, m) writes the length of the message and then the
\* message, and returns the error of the write that failed.
WriteDelimited_Write ==
    /\ dump.pc = "WriteDelimited"
    /\ dump.k < 2
    /\ LET err == Write(dump.writes, dump.failAt)
       IN  IF failed(err)
           THEN /\ familyLock' = [familyLock EXCEPT
                                     ![At(dump.collected, dump.i)] = @ - 1]
                /\ dump' = [dump EXCEPT !.pc = "idle", !.writes = @ + 1,
                                        !.err = err]
           ELSE /\ dump' = [dump EXCEPT !.k = @ + 1, !.writes = @ + 1]
                /\ UNCHANGED familyLock
    /\ UNCHANGED <<familyChildren, registryLock, registryVars>>
    /\ DumpFrame

\* counterFamily.dumpProto returns nil through f.RUnlock().
counterFamily_dumpProto_return ==
    /\ dump.pc = "WriteDelimited"
    /\ dump.k = 2
    /\ familyLock' = [familyLock EXCEPT ![At(dump.collected, dump.i)] = @ - 1]
    /\ dump' = [dump EXCEPT !.pc = "dumpProto", !.i = @ + 1]
    /\ UNCHANGED <<familyChildren, registryLock, registryVars>>
    /\ DumpFrame

\* families.dumpText and families.dumpProto: return nil after the last family.
families_dump_return ==
    /\ dump.pc \in {"dumpText", "dumpProto"}
    /\ dump.i = Len(dump.collected)
    /\ dump' = [dump EXCEPT !.pc = "idle"]
    /\ UNCHANGED <<familyChildren, familyLock, registryLock, registryVars>>
    /\ DumpFrame

\* json.NewEncoder(w).Encode(f) calling MarshalJSON of the family at i:
\* f.RLock() on entry and the deferred f.RLock() on return.
counterFamily_MarshalJSON ==
    /\ dump.pc = "dumpJSON"
    /\ dump.i < Len(dump.collected)
    /\ familyLock' = [familyLock EXCEPT ![At(dump.collected, dump.i)] = (@ + 1) + 1]
    /\ dump' = [dump EXCEPT !.i = @ + 1]
    /\ UNCHANGED <<familyChildren, registryLock, registryVars>>
    /\ DumpFrame

\* Encode writes the document in one write and returns its error.
Encoder_Encode ==
    /\ dump.pc = "dumpJSON"
    /\ dump.i = Len(dump.collected)
    /\ dump' = [dump EXCEPT !.pc = "idle", !.writes = @ + 1,
                            !.err = Write(dump.writes, dump.failAt)]
    /\ UNCHANGED <<familyChildren, familyLock, registryLock, registryVars>>
    /\ DumpFrame

NextDump ==
    \/ \E f \in FamilyInputs : Register(f)
    \/ \E f \in FamilyInputs : RegisterChild(f)
    \/ \E f \in FamilyInputs : ForgetAllOf(f)
    \/ \E format \in FormatInputs, failAt \in 0..MaxWrites : registry_dump(format, failAt)
    \/ shouldDump_RLock
    \/ shouldDump_return
    \/ collectFamilies_return
    \/ counterFamily_dumpText_RLock
    \/ counterFamily_dumpText_Fprintf
    \/ counterFamily_dumpText_return
    \/ counterFamily_dumpProto_RLock
    \/ WriteDelimited_Write
    \/ counterFamily_dumpProto_return
    \/ families_dump_return
    \/ counterFamily_MarshalJSON
    \/ Encoder_Encode

SpecDump == InitDump /\ [][NextDump]_vars

\* ---------------------------------------------- threads on one counter
\* The calls made on the counter in one run.
MaxCalls == 3

\* The methods the threads call, with their arguments.
MethodInputs ==
    { [op |-> "Increment", v |-> 0], [op |-> "IncrementBy", v |-> 2],
      [op |-> "Decrement", v |-> 0], [op |-> "DecrementBy", v |-> 1] }

\* The counter the threads share: the one of NewChild("a","1","b","1").Apply().
SharedCounter ==
    LET labels == canonical(pairsOf(<<StrA, Str1, StrB, Str1>>))
    IN  [fingerprint |-> labelPairs_fingerprint(labels), Labels |-> labels,
         Value |-> options.DefaultValue]

InitMutate ==
    /\ counters = <<SharedCounter>>
    /\ LET registered == counterFamily_register(<<SharedCounter>>, <<>>, EmptyMap, 1)
       IN  /\ children = registered.children
           /\ childrenSet = registered.childrenSet
    /\ partial = [t \in Threads |-> NoPartial]
    /\ pc = [t \in Threads |-> "idle"]
    /\ fingerprint = [t \in Threads |-> ZeroU64]
    /\ last = Step("t1", "Apply", TRUE, Ok, 1, SharedCounter.Labels, Nil, 0)
    /\ LET registered == registry_register(<<>>, EmptyMap, newFamily("counter", options))
       IN  /\ families = registered.families
           /\ familiesSet = registered.familiesSet
           /\ lastReg = [kind |-> "counter", name |-> deriveName(options),
                         status |-> registered.status]
    /\ InitRest

\* c.Lock() as it would be if it were granted whoever holds the lock.
granted_always(holder) == TRUE

\* c.Lock() is granted when no thread holds the lock.
granted(holder) == holder = NoThread

\* The statement of the method between Lock and Unlock, on a Value read
\* before: c.Value++, c.Value += v, c.Value--, c.Value -= v.
assigned(heap, c, method, loaded) ==
    LET read == [heap EXCEPT ![c].Value = loaded]
    IN  IF method.op = "Increment" THEN counter_Increment(read, c)
        ELSE IF method.op = "IncrementBy" THEN counter_IncrementBy(read, c, method.v)
        ELSE IF method.op = "Decrement" THEN counter_Decrement(read, c)
        ELSE counter_DecrementBy(read, c, method.v)

MutateFrame ==
    UNCHANGED <<children, childrenSet, partial, pc, fingerprint, last,
                registryVars, sliceVars, hashVars, familyKind, orderVars, lockVars, dumpVars>>

\* A thread calls a method of the counter.
Enter(t, method) ==
    /\ call[t].pc = "idle"
    /\ net.calls + Cardinality({u \in Threads : call[u].pc # "idle"}) < MaxCalls
    /\ call' = [call EXCEPT ![t] = [pc |-> "Lock", op |-> method.op, v |-> method.v,
                                    loaded |-> 0]]
    /\ UNCHANGED <<counters, mutex, net>>
    /\ MutateFrame

\* c.Lock()
Lock(t) ==
    /\ call[t].pc = "Lock"
    /\ granted(mutex)
    /\ mutex' = t
    /\ call' = [call EXCEPT ![t].pc = "load"]
    /\ UNCHANGED <<counters, net>>
    /\ MutateFrame

\* The read of c.Value in c.Value++ and the like.
Load(t) ==
    /\ call[t].pc = "load"
    /\ call' = [call EXCEPT ![t].pc = "store", ![t].loaded = counters[1].Value]
    /\ UNCHANGED <<counters, mutex, net>>
    /\ MutateFrame

\* The write of c.Value.
Store(t) ==
    /\ call[t].pc = "store"
    /\ counters' = assigned(counters, 1, call[t], call[t].loaded)
    /\ call' = [call EXCEPT ![t].pc = "Unlock"]
    /\ UNCHANGED <<mutex, net>>
    /\ MutateFrame

\* The deferred c.Unlock(), and the return.
Unlock(t) ==
    /\ call[t].pc = "Unlock"
    /\ mutex' = NoThread
    /\ net' = [calls |-> net.calls + 1,
               sum |-> net.sum + (IF call[t].op = "Increment" THEN 1
                                  ELSE IF call[t].op = "IncrementBy" THEN call[t].v
                                  ELSE IF call[t].op = "Decrement" THEN -1
                                  ELSE -call[t].v),
               by |-> net.by \cup {t}]
    /\ call' = [call EXCEPT ![t] = NoMethod]
    /\ UNCHANGED counters
    /\ MutateFrame

NextMutate ==
    \/ \E t \in Threads, method \in MethodInputs : Enter(t, method)
    \/ \E t \in Threads : Lock(t)
    \/ \E t \in Threads : Load(t)
    \/ \E t \in Threads : Store(t)
    \/ \E t \in Threads : Unlock(t)

SpecMutate == InitMutate /\ [][NextMutate]_vars

\* ------------------------------------------------- the locks of the package
\* One step of a call on an RWMutex: k is Lock, RLock, Unlock or RUnlock,
\* on names the RWMutex, then names what the call does once the step is
\* taken, on the partial of thread o or on the counter c.
lockStep(k, on, then, o, c) == [k |-> k, on |-> on, then |-> then, o |-> o, c |-> c]

\* for _, x := range xs { body(x) }: the steps of the bodies, one after the other.
rangeOver(xs, body(_)) ==
    LET steps[k \in 0..Len(xs)] == IF k = 0 THEN <<>> ELSE steps[k - 1] \o body(xs[k])
    IN  steps[Len(xs)]

\* func (p *counterPartial) Apply(), with the find it calls: p.Lock(), the
\* sort and the fingerprint, f.RLock() and the lookup, f.RUnlock(), and at
\* the return or the panic the deferred p.Unlock().
counterPartial_Apply_body(o) ==
    << lockStep("Lock", partialLock(o), "sort", o, 0),
       lockStep("RLock", "f", "find", o, 0),
       lockStep("RUnlock", "f", "", o, 0),
       lockStep("Unlock", partialLock(o), "", o, 0) >>

\* func (f *counterFamily) register(c *counter), called by Apply
counterFamily_register_body(o) ==
    << lockStep("Lock", "f", "register", o, 0),
       lockStep("Unlock", "f", "", o, 0) >>

\* func (p *counterPartial) With(labels ...string)
counterPartial_With_body(o) ==
    << lockStep("Lock", partialLock(o), "append", o, 0),
       lockStep("Unlock", partialLock(o), "", o, 0) >>

\* func (p *counterPartial) Clone() CounterPartial
counterPartial_Clone_body(o) ==
    << lockStep("RLock", partialLock(o), "copy", o, 0),
       lockStep("RUnlock", partialLock(o), "", o, 0) >>

\* func (c *counter) Forget(), that is c.parent.forget(c.fingerprint)
counterFamily_forget_body(c) ==
    << lockStep("Lock", "f", "forget", NoThread, c),
       lockStep("Unlock", "f", "", NoThread, c) >>

\* func (f *counterFamily) ForgetAll()
counterFamily_ForgetAll_body ==
    << lockStep("Lock", "f", "ForgetAll", NoThread, 0),
       lockStep("Unlock", "f", "", NoThread, 0) >>

\* func (f *counterFamily) ResetAll()
counterFamily_ResetAll_body ==
    << lockStep("RLock", "f", "range Reset", NoThread, 0),
       lockStep("RUnlock", "f", "", NoThread, 0) >>

\* Reset as it would be if it read the DefaultValue under the lock of the
\* parent.
counter_Reset_body_lockingParent(c) ==
    << lockStep("Lock", counterLock(c), "Reset", NoThread, c),
       lockStep("RLock", "f", "", NoThread, c),
       lockStep("RUnlock", "f", "", NoThread, c),
       lockStep("Unlock", counterLock(c), "", NoThread, c) >>

\* func (c *counter) Reset()
counter_Reset_body(c) ==
    << lockStep("Lock", counterLock(c), "Reset", NoThread, c),
       lockStep("Unlock", counterLock(c), "", NoThread, c) >>

\* func (c *counter) Set(v float64)
counter_Set_body(c) ==
    << lockStep("Lock", counterLock(c), "Set", NoThread, c),
       lockStep("Unlock", counterLock(c), "", NoThread, c) >>

\* func (r *registry) register(f Family), called by NewCounterFamily
registry_register_body ==
    << lockStep("Lock", "r", "registry register", NoThread, 0),
       lockStep("Unlock", "r", "", NoThread, 0) >>

\* func (r *registry) collectFamilies(o *dumpOptions) (f families)
registry_collectFamilies_body ==
    << lockStep("RLock", "r", "range shouldDump", NoThread, 0),
       lockStep("RUnlock", "r", "", NoThread, 0) >>

\* func (f *counterFamily) shouldDump(*dumpOptions) bool
counterFamily_shouldDump_body(f) ==
    << lockStep("RLock", "f", "shouldDump", NoThread, 0),
       lockStep("RUnlock", "f", "", NoThread, 0) >>

\* func (c *counter) asText() string, and the Fprintf of its result
counter_asText_body(c) ==
    << lockStep("RLock", counterLock(c), "", NoThread, c),
       lockStep("RUnlock", counterLock(c), "Fprintf", NoThread, c) >>

\* func (f *counterFamily) dumpText(w io.Writer, o *dumpOptions) error
counterFamily_dumpText_body ==
    << lockStep("RLock", "f", "range asText", NoThread, 0),
       lockStep("RUnlock", "f", "", NoThread, 0) >>

\* func (c *counter) asProto() *model.Metric
counter_asProto_body(c) ==
    << lockStep("RLock", counterLock(c), "", NoThread, c),
       lockStep("RUnlock", counterLock(c), "", NoThread, c) >>

\* func (f *counterFamily) dumpProto(w io.Writer, o *dumpOptions) error
counterFamily_dumpProto_body ==
    << lockStep("RLock", "f", "range asProto", NoThread, 0),
       lockStep("RUnlock", "f", "", NoThread, 0) >>

\* The threads that have called Lock on x and wait for its readers to leave.
pendingWriters(x) ==
    {u \in Threads : running[u].pending /\ Head(running[u].todo).on = x}

\* sync.RWMutex: RLock returns when no thread holds the lock for writing and
\* no call of Lock is pending; Lock, once called, returns when no thread
\* holds the lock.
mayRLock(x) == locks[x].writer = NoThread /\ pendingWriters(x) = {}

mayLock(x) == locks[x].writer = NoThread /\ locks[x].readers = {}

\* What thread t does under the lock it has just acquired with the step ins,
\* and the steps it has left after it (rest are those it had left before).
acquired(t, ins, rest) ==
    LET asIs == [counters |-> counters, children |-> children,
                 childrenSet |-> childrenSet, partial |-> partial,
                 families |-> families, familiesSet |-> familiesSet,
                 fp |-> running[t].fp, todo |-> rest]
    IN  IF ins.then = "sort"
        THEN LET labels == canonical(partial[ins.o].labels)
             IN  [asIs EXCEPT !.partial = [partial EXCEPT ![ins.o].labels = labels],
                              !.fp = labelPairs_fingerprint(labels)]
        ELSE IF ins.then = "find"
        THEN LET found == counterFamily_find(children, childrenSet, running[t].fp)
                 valid == counterPartial_validate(partial[ins.o].labels,
                                                  options.Dimensions)
             IN  IF found.status = Ok /\ ~found.has /\ valid = Ok
                 THEN [asIs EXCEPT !.todo = <<Head(rest)>>
                                            \o counterFamily_register_body(ins.o)
                                            \o Tail(rest)]
                 ELSE asIs
        ELSE IF ins.then = "register"
        THEN LET counter == [fingerprint |-> running[t].fp,
                             Labels |-> partial[ins.o].labels,
                             Value |-> options.DefaultValue]
                 heap == Append(counters, counter)
                 registered == counterFamily_register(heap, children, childrenSet,
                                                      Len(heap))
             IN  [asIs EXCEPT !.counters = heap,
                              !.children = registered.children,
                              !.childrenSet = registered.childrenSet]
        ELSE IF ins.then = "append"
        THEN IF Len(running[t].labels) % 2 # 0 THEN asIs
             ELSE [asIs EXCEPT !.partial =
                      [partial EXCEPT ![ins.o].labels = @ \o pairsOf(running[t].labels)]]
        ELSE IF ins.then = "forget"
        THEN LET forgotten == counterFamily_forget(children, childrenSet,
                                                   counters[ins.c].fingerprint)
             IN  [asIs EXCEPT !.children = forgotten.children,
                              !.childrenSet = forgotten.childrenSet]
        ELSE IF ins.then = "ForgetAll"
        THEN LET cleared == counterFamily_ForgetAll(children, childrenSet)
             IN  [asIs EXCEPT !.children = cleared.children,
                              !.childrenSet = cleared.childrenSet]
        ELSE IF ins.then = "range Reset"
        THEN [asIs EXCEPT !.todo = rangeOver(children, counter_Reset_body) \o rest]
        ELSE IF ins.then = "Reset"
        THEN [asIs EXCEPT !.counters = counter_Reset(counters, ins.c)]
        ELSE IF ins.then = "Set"
        THEN [asIs EXCEPT !.counters = counter_Set(counters, ins.c, running[t].v)]
        ELSE IF ins.then = "registry register"
        THEN LET registered == registry_register(families, familiesSet,
                                                 newFamily("counter", options))
             IN  [asIs EXCEPT !.families = registered.families,
                              !.familiesSet = registered.familiesSet]
        ELSE IF ins.then = "range shouldDump"
        THEN [asIs EXCEPT !.todo = rangeOver(families, counterFamily_shouldDump_body)
                                   \o rest]
        ELSE IF ins.then = "shouldDump"
        THEN IF ~counterFamily_shouldDump(children) THEN asIs
             ELSE [asIs EXCEPT !.todo =
                      rest \o (IF running[t].op = "dumpText"
                               THEN counterFamily_dumpText_body
                               ELSE counterFamily_dumpProto_body)]
        ELSE IF ins.then = "range asText"
        THEN [asIs EXCEPT !.todo = rangeOver(children, counter_asText_body) \o rest]
        ELSE IF ins.then = "range asProto"
        THEN [asIs EXCEPT !.todo = rangeOver(children, counter_asProto_body) \o rest]
        ELSE asIs

\* The strings passed to With and the values passed to Set.
LockWithInputs == {<<>>, <<StrA>>}

LockSetInputs == {options.DefaultValue}

\* The strings the second thread passed to NewChild: a label set over the
\* declared dimensions, and one with the undeclared dimension c.
LockNewChildInputs == {<<StrB, Str1, StrA, Str2>>, <<StrB, Str1, StrC, Str1>>}

\* A family with no children, registered, and the partials the threads made
\* of it, the first with NewChild("a", "1", "b", "1"); each thread calls the
\* methods of either partial.
InitLocks ==
    /\ counters = <<>>
    /\ children = <<>>
    /\ childrenSet = EmptyMap
    /\ \E labels \in LockNewChildInputs :
          partial = [t \in Threads |->
                       [live |-> TRUE,
                        labels |-> IF t = Caller THEN pairsOf(<<StrA, Str1, StrB, Str1>>)
                                   ELSE pairsOf(labels)]]
    /\ pc = [t \in Threads |-> "idle"]
    /\ fingerprint = [t \in Threads |-> ZeroU64]
    /\ last = Step("t1", "NewChild", TRUE, Ok, Nil, <<>>, Nil, 0)
    /\ LET registered == registry_register(<<>>, EmptyMap, newFamily("counter", options))
       IN  /\ families = registered.families
           /\ familiesSet = registered.familiesSet
           /\ lastReg = [kind |-> "counter", name |-> deriveName(options),
                         status |-> registered.status]
    /\ InitIdle
    /\ InitNoHash
    /\ InitNoOrder
    /\ familyKind = "counter"
    /\ InitNoLocks

LockFrame ==
    UNCHANGED <<pc, fingerprint, last, lastReg, sliceVars, hashVars, familyKind,
                orderVars, dumpVars, mutateVars>>

\* Thread t calls an operation of the package: body are the lock steps of
\* the call, labels and v its arguments. A call that starts with Lock has
\* called Lock.
Begin(t, op, body, labels, v) ==
    /\ running[t].todo = <<>>
    /\ running' = [running EXCEPT ![t] =
                      [op |-> op, todo |-> body, pending |-> Head(body).k = "Lock", fp |-> ZeroU64,
                       labels |-> labels, v |-> v]]
    /\ UNCHANGED <<counters, children, childrenSet, partial, families, familiesSet,
                   locks>>
    /\ LockFrame

\* Thread t calls Lock: from now on no RLock of another thread returns.
Announce(t) ==
    /\ running[t].todo # <<>>
    /\ Head(running[t].todo).k = "Lock"
    /\ ~running[t].pending
    /\ running' = [running EXCEPT ![t].pending = TRUE]
    /\ UNCHANGED <<counters, children, childrenSet, partial, families, familiesSet,
                   locks>>
    /\ LockFrame

\* The Lock or RLock of thread t returns, and t does what the call does
\* under the lock.
Acquire(t) ==
    /\ running[t].todo # <<>>
    /\ LET ins == Head(running[t].todo)
           post == acquired(t, ins, Tail(running[t].todo))
       IN  /\ \/ ins.k = "RLock" /\ mayRLock(ins.on)
              \/ ins.k = "Lock" /\ running[t].pending /\ mayLock(ins.on)
           /\ locks' = [locks EXCEPT ![ins.on] =
                          IF ins.k = "RLock"
                          THEN [@ EXCEPT !.readers = @ \cup {t}]
                          ELSE [@ EXCEPT !.writer = t]]
           /\ counters' = post.counters
           /\ children' = post.children
           /\ childrenSet' = post.childrenSet
           /\ partial' = post.partial
           /\ families' = post.families
           /\ familiesSet' = post.familiesSet
           /\ running' = [running EXCEPT ![t].todo = post.todo,
                                         ![t].pending = FALSE,
                                         ![t].fp = post.fp]
    /\ LockFrame

\* The Unlock or RUnlock of thread t; after the RUnlock of a counter in
\* dumpText, the Fprintf, and on its error the return of dumpText with the
\* deferred f.RUnlock() alone left. The call returns when no step is left.
Release(t) ==
    /\ running[t].todo # <<>>
    /\ LET ins == Head(running[t].todo)
           rest == Tail(running[t].todo)
       IN  /\ ins.k \in {"Unlock", "RUnlock"}
           /\ locks' = [locks EXCEPT ![ins.on] =
                          IF ins.k = "RUnlock"
                          THEN [@ EXCEPT !.readers = @ \ {t}]
                          ELSE [@ EXCEPT !.writer = NoThread]]
           /\ \E err \in (IF ins.then = "Fprintf" THEN BOOLEAN ELSE {FALSE}) :
                 LET left == IF err THEN <<rest[Len(rest)]>> ELSE rest
                 IN  running' = [running EXCEPT ![t] =
                                    IF left = <<>> THEN NotRunning
                                    ELSE [@ EXCEPT !.todo = left]]
    /\ UNCHANGED <<counters, children, childrenSet, partial, families, familiesSet>>
    /\ LockFrame

NextLocks ==
    \/ \E t \in Threads, o \in Threads :
          /\ Len(counters) + Cardinality({u \in Threads : running[u].op = "Apply"})
                < MaxCounters
          /\ Begin(t, "Apply", counterPartial_Apply_body(o), <<>>, 0)
    \/ \E t \in Threads, o \in Threads, labels \in LockWithInputs :
          /\ Len(partial[o].labels) + (Len(labels) \div 2) <= MaxPairs
          /\ Begin(t, "With", counterPartial_With_body(o), labels, 0)
    \/ \E t \in Threads, o \in Threads :
          Begin(t, "Clone", counterPartial_Clone_body(o), <<>>, 0)
    \/ \E t \in Threads, c \in 1..Len(counters) :
          Begin(t, "Forget", counterFamily_forget_body(c), <<>>, 0)
    \/ \E t \in Threads : Begin(t, "ForgetAll", counterFamily_ForgetAll_body, <<>>, 0)
    \/ \E t \in Threads : Begin(t, "ResetAll", counterFamily_ResetAll_body, <<>>, 0)
    \/ \E t \in Threads, c \in 1..Len(counters) :
          Begin(t, "Reset", counter_Reset_body(c), <<>>, 0)
    \/ \E t \in Threads, c \in 1..Len(counters), v \in LockSetInputs :
          Begin(t, "Set", counter_Set_body(c), <<>>, v)
    \/ \E t \in Threads :
          Begin(t, "NewCounterFamily", registry_register_body, <<>>, 0)
    \/ \E t \in Threads, format \in {dumpProto, dumpText} :
          Begin(t, IF format = dumpText THEN "dumpText" ELSE "dumpProto",
                registry_collectFamilies_body, <<>>, 0)
    \/ \E t \in Threads : Announce(t)
    \/ \E t \in Threads : Acquire(t)
    \/ \E t \in Threads : Release(t)

SpecLocks == InitLocks /\ [][NextLocks]_vars

\* ------------------------------------------------------------------ claims
\* A label set has exactly one pair per declared dimension.
MatchesDimensions(labels) ==
    /\ Len(labels) = Len(options.Dimensions)
    /\ \A d \in 1..Len(options.Dimensions) :
          Cardinality({i \in 1..Len(labels) : labels[i].Name = options.Dimensions[d]}) = 1

\* The order of (name, value) pairs.
PairLess(p, q) ==
    \/ StrLess(p.Name, q.Name)
    \/ p.Name = q.Name /\ StrLess(p.Value, q.Value)

\* Label Set order: decided by the pairs at the first position of difference.
LabelSetLess(l, o) ==
    \E i \in 1..Len(l) :
        /\ i <= Len(o)
        /\ \A k \in 1..(i - 1) : l[k] = o[k]
        /\ PairLess(l[i], o[i])

\* The children that carry a label set.
ChildrenWith(kids, labels) ==
    {k \in 1..Len(kids) : counters[kids[k]].Labels = labels}

\* What find reports for a fingerprint, in the current state.
Found(fp) == counterFamily_find(children, childrenSet, fp)

\* The orders in which the pairs of a label set may be given.
Orders(labels) ==
    {[i \in 1..Len(labels) |-> labels[p[i]]] :
        p \in {q \in [1..Len(labels) -> 1..Len(labels)] :
                  \A i, j \in 1..Len(labels) : q[i] = q[j] => i = j}}

\* C1: when the Apply calls of two threads on two partials with the same
\* label set overlap (the one completes while the other stands between its
\* lookup and its registration), the second to complete returns the counter
\* the first returned, and the family holds one child with that label set.
C1_ExactlyOnceCreation ==
    [][\A u \in Threads :
          ( /\ pc[u] = "Apply_miss"
            /\ pc'[u] = "idle"
            /\ last.op = "Apply" /\ last.done /\ last.status = Ok
            /\ last.t # u
            /\ last.labels = partial[u].labels
            /\ MatchesDimensions(partial[u].labels) )
          => /\ last'.status = Ok
             /\ last'.val = last.val
             /\ Cardinality(ChildrenWith(children', partial[u].labels)) = 1]_vars

\* C2: an Apply with a label set that matches the dimensions returns a
\* counter, and a second Apply right after it, on another partial with the
\* same pairs in any order, finds that same counter (and so leaves the
\* children as they are).
C2_SameInstance ==
    (last.op = "Apply" /\ last.done /\ MatchesDimensions(last.labels))
    => /\ last.status = Ok
       /\ \A l \in Orders(last.labels) :
             Found(labelPairs_fingerprint(canonical(l)))
                 = [status |-> Ok, counter |-> last.val, has |-> TRUE]

\* C3: a fingerprint is a key of the index iff a child with it is among the
\* children, and every key's position is within bounds and holds the child
\* with that fingerprint.
C3_IndexConsistent ==
    /\ DOMAIN childrenSet
          = {counters[children[k]].fingerprint : k \in 1..Len(children)}
    /\ \A fp \in DOMAIN childrenSet :
          /\ 0 <= childrenSet[fp] /\ childrenSet[fp] < Len(children)
          /\ counters[At(children, childrenSet[fp])].fingerprint = fp

\* C4: the children are sorted ascending in Label Set order.
C4_ChildrenSorted ==
    \A i, j \in 1..Len(children) :
        i < j => ~LabelSetLess(counters[children[j]].Labels,
                               counters[children[i]].Labels)

\* C7: when Apply found no child and the label set does not have exactly one
\* pair per declared dimension, Apply ends in a validation panic and leaves
\* the children and the index as they were.
C7_ValidationLeavesFamily ==
    [][\A t \in Threads :
          ( /\ pc[t] = "Apply_miss"
            /\ pc'[t] = "idle"
            /\ ~MatchesDimensions(partial[t].labels) )
          => /\ last'.status \in {PanicWrongDimensions, PanicNoMatch}
             /\ children' = children
             /\ childrenSet' = childrenSet]_vars

C7_Witness ==
    /\ last.op = "Apply" /\ last.done
    /\ last.status = PanicNoMatch
    /\ Len(last.labels) = Len(options.Dimensions)
    /\ Len(children) >= 1

\* C8: after Forget on the only child of the family, find reports no child
\* for its fingerprint and shouldDump is false.
C8_ForgetOnlyChild ==
    [][\A c \in 1..Len(counters) :
          ( /\ children = <<c>>
            /\ last'.op = "Forget" /\ last'.arg = c )
          => /\ counterFamily_find(children', childrenSet', counters[c].fingerprint)
                  = [status |-> Ok, counter |-> Nil, has |-> FALSE]
             /\ ~counterFamily_shouldDump(children')]_vars

\* C9: after ForgetAll the family has no children and an empty index: find
\* reports no child for any fingerprint and shouldDump is false.
C9_ForgetAllClears ==
    last.op = "ForgetAll"
    => /\ Len(children) = 0
       /\ DOMAIN childrenSet = {}
       /\ \A c \in 1..Len(counters) :
             Found(counters[c].fingerprint)
                 = [status |-> Ok, counter |-> Nil, has |-> FALSE]
       /\ ~counterFamily_shouldDump(children)

C9_Witness ==
    /\ last.op = "ForgetAll"
    /\ last.n >= 2
    /\ Len(children) = 0

\* C10: Forget on a counter whose fingerprint is not in the index ends in
\* the missing-fingerprint panic and leaves the children and the index as
\* they were.
C10_ForgetAbsentPanics ==
    [][\A c \in 1..Len(counters) :
          ( /\ last'.op = "Forget" /\ last'.arg = c
            /\ counters[c].fingerprint \notin DOMAIN childrenSet )
          => /\ last'.status = PanicMissingFingerprint
             /\ children' = children
             /\ childrenSet' = childrenSet]_vars

C10_Witness ==
    /\ last.op = "Forget"
    /\ last.status = PanicMissingFingerprint
    /\ Len(children) >= 1
    /\ last.arg \notin {children[k] : k \in 1..Len(children)}

\* C5: registering a family whose derived name a registered family has ends
\* in the already-registered panic and leaves the registry's families and
\* index as they were.
C5_DuplicateNameRejected ==
    [][( /\ lastReg'.status \notin {PanicName, PanicHelp, PanicQuantiles}
         /\ lastReg'.kind # "none"
         /\ \E i \in 1..Len(families) : families[i].name = lastReg'.name )
       => /\ lastReg'.status = PanicRegistered
          /\ families' = families
          /\ familiesSet' = familiesSet
          /\ Len(families') = Len(families)]_vars

C5_Witness ==
    /\ lastReg.status = PanicRegistered
    /\ Len(families) = 1
    /\ families[1].name = lastReg.name

\* C6: a family's fingerprint is the hash of its derived name, so a
\* registration is rejected only when a family with the same derived name is
\* registered already.
C6_RejectedOnlyForSameName ==
    /\ \A i \in 1..Len(families) :
          family_fingerprint(families[i]) = familyName_fingerprint(families[i].name)
    /\ lastReg.status = PanicRegistered
          => \E i \in 1..Len(families) : families[i].name = lastReg.name

\* C11: With and NewChild with an odd number of strings end in the
\* illegal-labels panic and append nothing (the partial of a failed With
\* holds the pairs it held before, a failed NewChild makes no partial); with
\* an even number they append the pairs of the strings in the given order.
C11_OddCountAppendsNothing ==
    [][LET strs == lastCall'.labels
           n == Len(strs) \div 2
           GivenAfter(before, after) ==
               /\ Len(after) = Len(before) + n
               /\ \A k \in 1..Len(before) : after[k] = before[k]
               /\ \A k \in 1..n :
                     after[Len(before) + k] = labelPair(strs[2 * k - 1], strs[2 * k])
       IN  /\ lastCall'.op = "With" =>
                LET before == elements(arrays, partials[lastCall'.p])
                    after == elements(arrays', partials'[lastCall'.p])
                IN  IF Len(strs) % 2 # 0
                    THEN lastCall'.status = PanicIllegalLabels /\ after = before
                    ELSE lastCall'.status = Ok /\ GivenAfter(before, after)
           /\ lastCall'.op = "NewChild" =>
                IF Len(strs) % 2 # 0
                THEN lastCall'.status = PanicIllegalLabels /\ partials' = partials
                ELSE /\ lastCall'.status = Ok
                     /\ Len(partials') = Len(partials) + 1
                     /\ GivenAfter(<<>>, elements(arrays', partials'[lastCall'.ret]))]_vars

C11_Witness ==
    /\ lastCall.op = "With"
    /\ lastCall.status = PanicIllegalLabels
    /\ Len(lastCall.labels) = 3
    /\ partials[lastCall.p].len >= 1

\* C12: the fingerprint that Apply computes after it has sorted the pairs is
\* the fingerprint it computes for the same pairs accumulated in any other
\* order.
C12_FingerprintOrderFree ==
    stage = "hashed"
    => \A l \in Orders(accumulated) :
          labelPairs_fingerprint(canonical(l)) = sum

C12_Witness ==
    /\ stage = "hashed"
    /\ Len(accumulated) = MaxPairs
    /\ sortedLabels # accumulated
    /\ \A i, j \in 1..Len(accumulated) : i # j => accumulated[i] # accumulated[j]

\* C13: no call on a partial (NewChild, With, Clone, Apply) changes the
\* label pairs, or their order, of a counter that Apply has created.
C13_InstanceLabelsImmutable ==
    [][\A c \in 1..Len(instances) :
          elements(arrays', instances'[c].Labels)
              = elements(arrays, instances[c].Labels)]_vars

\* C14: when ResetAll returns, each of the family's children holds the
\* DefaultValue of the family's options, whatever Increment, Decrement and
\* Set calls came before, and f.children and f.childrenSet are as they were.
C14_ResetAllRestoresDefault ==
    [][last'.op = "ResetAll"
       => /\ \A k \in 1..Len(children') :
                counters'[children'[k]].Value = options.DefaultValue
          /\ children' = children
          /\ childrenSet' = childrenSet]_vars

C14_Witness ==
    /\ last.op = "ResetAll"
    /\ last.arg >= 2
    /\ Len(children) >= 2
    /\ \A k \in 1..Len(children) : counters[children[k]].Value = options.DefaultValue

\* C15: what collectFamilies returns holds the registered families that have
\* at least one child, and no other, each once, in ascending order of their
\* names; and a registration that succeeds adds its family to the registered
\* ones and keeps the others.
C15_CollectedFamilies ==
    [][/\ ( dump.pc = "collectFamilies" /\ dump'.pc \notin {"collectFamilies", "shouldDump"} )
          => LET c == dump'.collected
             IN  /\ {c[j] : j \in 1..Len(c)}
                       = {f \in Registered : Len(familyChildren[f]) >= 1}
                 /\ \A j1, j2 \in 1..Len(c) : j1 # j2 => c[j1] # c[j2]
                 /\ \A j1, j2 \in 1..Len(c) :
                       j1 < j2 => ~StrLess(c[j2].name, c[j1].name)
       /\ ( families' # families )
          => /\ lastReg'.status = Ok
             /\ Len(families') = Len(families) + 1
             /\ \E f \in FamilyInputs :
                   /\ f.name = lastReg'.name
                   /\ f \notin Registered
                   /\ {families'[i] : i \in 1..Len(families')} = Registered \cup {f}]_vars

C15_Witness ==
    /\ dump.pc = "dumpText" /\ dump.i = 0
    /\ Len(families) = 2
    /\ lastReg.status = Ok /\ lastReg.name = StrA
    /\ Len(dump.collected) = 2
    /\ dump.collected[1].name = StrA
    /\ dump.collected[2].name = StrB

\* C16: in a line-text or binary dump the write at which the writer fails is
\* the last write of the dump: the dump has returned with that error, and no
\* write for a later child or a later family follows; and the dump returns
\* the write error only when a write failed.
C16_DumpStopsAtFirstFailure ==
    dump.format \in {dumpProto, dumpText}
    => /\ dump.failAt # 0 => dump.writes <= dump.failAt
       /\ (dump.failAt # 0 /\ dump.writes = dump.failAt)
             => (dump.pc = "idle" /\ dump.err = ErrWrite)
       /\ dump.err = ErrWrite => (dump.failAt # 0 /\ dump.writes = dump.failAt)

C16_Witness ==
    /\ dump.pc = "idle"
    /\ dump.format = dumpText
    /\ dump.err = ErrWrite
    /\ dump.writes = 1
    /\ Len(dump.collected) = 2
    /\ dump.i = 0
    /\ \A j \in 1..2 : Len(familyChildren[dump.collected[j]]) = MaxChildren

\* C17: no step of register, collectFamilies or dump acquires the lock of a
\* family while the lock of the registry is held.
C17_NoFamilyLockUnderRegistryLock ==
    [][\A f \in FamilyInputs :
          familyLock'[f] > familyLock[f] => registryLock = 0]_vars

\* C18: once a dump in any of the three formats has returned, no lock of a
\* family is held, so that the Lock of a following register, forget or
\* ForgetAll on the family is granted.
C18_DumpReleasesFamilyLocks ==
    (dump.pc = "idle" /\ dump.format \in {dumpProto, dumpText, dumpJSON})
    => \A f \in FamilyInputs : familyLock[f] = 0

\* C19: when the Increment, IncrementBy, Decrement and DecrementBy calls
\* that several threads made on one counter have all returned, the value of
\* the counter is its initial value plus what the calls add up to.
C19_NoLostUpdate ==
    (\A t \in Threads : call[t].pc = "idle")
    => counters[1].Value = options.DefaultValue + net.sum

C19_Witness ==
    /\ \A t \in Threads : call[t].pc = "idle"
    /\ net.calls = MaxCalls
    /\ net.by = Threads
    /\ net.sum = 2
    /\ counters[1].Value = options.DefaultValue + 2

\* C20: the partial that Clone returns holds the pairs of the partial it was
\* cloned from, in the same order, and Clone leaves that partial as it was;
\* from then on a With or an Apply on one partial leaves the pairs that any
\* other partial holds, and their order, as they were.
C20_CloneIndependent ==
    [][/\ lastCall'.op = "Clone" =>
            /\ Len(partials') = Len(partials) + 1
            /\ elements(arrays', partials'[lastCall'.ret])
                  = elements(arrays, partials[lastCall'.p])
            /\ elements(arrays', partials'[lastCall'.p])
                  = elements(arrays, partials[lastCall'.p])
       /\ lastCall'.op \in {"With", "Apply"} =>
            \A q \in (1..Len(partials)) \ {lastCall'.p} :
                elements(arrays', partials'[q]) = elements(arrays, partials[q])]_vars

C20_Witness ==
    /\ lastCall.op = "Clone"
    /\ partials[lastCall.p].len = 3
    /\ cap(arrays, partials[lastCall.p]) = 4
    /\ partials[lastCall.ret].array # partials[lastCall.p].array
    /\ elements(arrays, partials[lastCall.ret]) = elements(arrays, partials[lastCall.p])
    /\ ~labelPairs_IsSorted(elements(arrays, partials[lastCall.p]))

\* C21: forget of the child at index i of n children, the index being
\* consistent before the call, leaves children[0:i] + children[i+1:n], and
\* afterwards the index holds, for every remaining child, its new position.
C21_ForgetCutsOneAndRenumbers ==
    [][\A c \in 1..Len(counters) :
          ( /\ last'.op = "Forget" /\ last'.arg = c
            /\ C3_IndexConsistent
            /\ counters[c].fingerprint \in DOMAIN childrenSet )
          => LET i == childrenSet[counters[c].fingerprint]
                 n == Len(children)
             IN  /\ last'.status = Ok
                 /\ children' = Slice(children, 0, i) \o Slice(children, i + 1, n)
                 /\ \A k \in 1..Len(children') :
                       LET fp == counters[children'[k]].fingerprint
                       IN  fp \in DOMAIN childrenSet' /\ childrenSet'[fp] = k - 1]_vars

\* C22: for two canonical label sets l and o of equal length over the same
\* dimension names, l.Before(o) is true exactly when l's pair is the lesser
\* at the first position where they differ; so Before is never true in both
\* directions, never true for equal label sets, and is transitive.
C22_BeforeIsFirstDifference ==
    verdict.done
    => /\ verdict.lo <=> LabelSetLess(operands.l, operands.o)
       /\ ~(verdict.lo /\ verdict.ol)
       /\ operands.l = operands.o => ~verdict.lo
       /\ (verdict.lo /\ verdict.om) => verdict.lm

\* C23: the counter that Apply returns carries exactly the canonical pairs
\* of the partial (so partials with different canonical label sets get
\* different counters), and an Apply on a label set that does not match the
\* declared dimensions ends in a validation panic, never in a counter.
C23_ApplyReturnsOwnLabels ==
    (last.op = "Apply" /\ last.done)
    => /\ last.status = Ok => counters[last.val].Labels = last.labels
       /\ ~MatchesDimensions(last.labels)
             => last.status \in {PanicWrongDimensions, PanicNoMatch}

\* C24: a Forget through a handle on counter c removes no other live
\* counter: every child that is not c stays among the children, and the
\* index keeps the entry of its fingerprint.
C24_ForgetRemovesNoOther ==
    [][\A c \in 1..Len(counters) :
          (last'.op = "Forget" /\ last'.arg = c)
          => \A k \in 1..Len(children) :
                children[k] # c
                => /\ \E j \in 1..Len(children') : children'[j] = children[k]
                   /\ counters[children[k]].fingerprint \in DOMAIN childrenSet
                         => counters[children[k]].fingerprint \in DOMAIN childrenSet']_vars

\* The locks thread t holds, and the step with which it awaits a lock.
HeldBy(t) == {x \in LockNames : locks[x].writer = t \/ t \in locks[x].readers}

Awaits(t) ==
    /\ running[t].todo # <<>>
    /\ Head(running[t].todo).k \in {"Lock", "RLock"}

\* Thread t cannot get the lock it awaits before thread u lets go of it: u
\* holds it for writing, or t called Lock and u holds it for reading, or t
\* called RLock after the Lock of u.
WaitsFor(t, u) ==
    /\ Awaits(t)
    /\ LET ins == Head(running[t].todo)
       IN  \/ locks[ins.on].writer = u
           \/ ins.k = "Lock" /\ u \in locks[ins.on].readers
           \/ ins.k = "RLock" /\ u # t /\ u \in pendingWriters(ins.on)

\* Thread t waits for u, directly or through at most n threads in a row.
RECURSIVE WaitsThrough(_, _, _)
WaitsThrough(t, u, n) ==
    \/ WaitsFor(t, u)
    \/ n > 1 /\ \E w \in Threads : WaitsFor(t, w) /\ WaitsThrough(w, u, n - 1)

\* The levels of the locks: the partial and the registry first, then the
\* family, then the counter.
lockLevel(x) ==
    IF x \in {"r"} \cup {partialLock(t) : t \in Threads} THEN 0
    ELSE IF x = "f" THEN 1
    ELSE 2

\* C25: no thread waits for a lock in a circle of waiting threads (nor for
\* itself); a thread that awaits a lock holds only locks of lower levels, so
\* it never takes a lock it holds again and the locks are taken in one
\* order; and every lock held is held by a thread that is in a call and has
\* the Unlock or RUnlock of it ahead, so no lock is left held for ever.
C25_NoDeadlock ==
    /\ \A t \in Threads : ~WaitsThrough(t, t, Cardinality(Threads))
    /\ \A t \in Threads :
          Awaits(t) => \A x \in HeldBy(t) :
                          lockLevel(x) < lockLevel(Head(running[t].todo).on)
    /\ \A t \in Threads : \A x \in HeldBy(t) :
          \E i \in 1..Len(running[t].todo) :
              /\ running[t].todo[i].on = x
              /\ running[t].todo[i].k = (IF locks[x].writer = t THEN "Unlock"
                                         ELSE "RUnlock")

C25_Witness ==
    \E t \in Threads : \E u \in Threads \ {t} :
        /\ WaitsFor(t, u)
        /\ running[t].op = "Apply"
        /\ Cardinality(HeldBy(t)) = 1
        /\ Head(running[t].todo).then = "register"
        /\ running[u].op = "ResetAll"
        /\ Cardinality(HeldBy(u)) = 2

=============================================================================
